---------------------------- MODULE Spec2Model ----------------------------
(***************************************************************************)
(* A model of the theme-intelligence-extractor crawl-and-extract pipeline: *)
(* input validation (index.ts), the crawler (crawler.ts: normalizeUrl,     *)
(* extractLinks, checkRobotsTxt, fetchWithRetry, fetchPage, fetchCSS,      *)
(* crawl) and the stack detector (extract.ts: detectStack).                *)
(*                                                                         *)
(* A URL string is a record of its parts; numbers that may be fractional   *)
(* (maxPages) are counted in halves; confidences are counted in            *)
(* hundredths.                                                             *)
(***************************************************************************)
EXTENDS Integers, Sequences, FiniteSets, TLC

VARIABLES
    input,           \* ExtractorInput handed to runExtractor
    pc,              \* position of runExtractor / crawl
    config,          \* ExtractorConfig (normalizeConfig's result)
    robotsTxt,       \* what the robots.txt request came back with
    robotsCheck,     \* checkRobotsTxt's result {allowed, warning}
    visited,         \* crawl: Set<string>
    queue,           \* crawl: string[]
    pages,           \* crawl: CrawledPage[]
    allCssLinks,     \* crawl: Set<string>, in insertion order
    cssTodo,         \* the part of allCssLinks the stylesheet pass has not reached
    cssContents,     \* crawl: Map<string, string>, in insertion order
    totalRequests,   \* crawl counter
    failedRequests,  \* crawl counter
    netUsed,         \* has any network request been issued
    retryUrl,        \* fetchWithRetry called on its own: parameter url
    maxRetries,      \* fetchWithRetry called on its own: parameter maxRetries
    initialDelay,    \* fetchWithRetry called on its own: parameter initialDelay
    net,             \* what the network answers to its successive calls
    rpc,             \* "called", then "returned" or "thrown"
    response,        \* the Response it returned, or the error it threw
    events,          \* the network calls it made and the delays it slept, in order
    fetchLog,        \* urls handed to fetchPage, in order
    timeline,        \* crawl: the fetches awaited and the delays slept, in order
    corpus,          \* detectStack: the fingerprints that match the session's content
    signals,         \* detectStack's result
    items,           \* deduplicateByValue: parameter items
    keyFn,           \* deduplicateByValue: parameter keyFn
    unique,          \* deduplicateByValue's results, one per application
    linkDoc,         \* extractLinks called on its own: parameter html
    linkBase,        \* extractLinks called on its own: parameter baseUrl
    docLinks,        \* extractLinks' result
    cssUnit,         \* extractColors: parameters css and sourceUrl of the latest call
    colorTokens,     \* extractColors: result of the latest call
    colorLastIndex,  \* COLOR_REGEX.lastIndex, which outlives the calls
    colorCalls,      \* the number of calls of extractColors so far
    imgTags,         \* detectAccessibilitySignals: the <img> tags of allHTML, in order
    altSignal,       \* detectAccessibilitySignals: the "Image Alt Text" signal
    sheets,          \* detectComponentPatterns: the values of session.cssContents, in order
    components,      \* detectComponentPatterns: the ComponentPattern list returned
    session,         \* extract: the CrawlSession (startUrl, pages, cssContents)
    extraction,      \* extract: the ExtractionResult, as the facts with their source URLs
    styleUnits,      \* extract: the css units handed to extractRadii and extractShadows
    radiusTokens,    \* extract: tokens.radii
    shadowTokens,    \* extract: tokens.shadows
    analysis         \* extract: layout, componentPatterns, the focus signal and the custom properties of a session

crawlVars == <<input, pc, config, robotsTxt, robotsCheck, visited, queue, pages,
               allCssLinks, cssTodo, cssContents, totalRequests, failedRequests,
               netUsed, fetchLog,
                   timeline>>
retryVars == <<retryUrl, maxRetries, initialDelay, net, rpc, response, events>>
stackVars == <<corpus, signals>>
crawlLocals == <<config, robotsTxt, robotsCheck, visited, queue, pages, allCssLinks,
                 cssTodo, cssContents, totalRequests, failedRequests, netUsed, fetchLog,
                   timeline>>
dedupVars == <<items, keyFn, unique>>
linkVars == <<linkDoc, linkBase, docLinks>>
colorVars == <<cssUnit, colorTokens, colorLastIndex, colorCalls>>
a11yVars == <<imgTags, altSignal>>
componentVars == <<sheets, components>>
provenanceVars == <<session, extraction>>
tokenVars == <<styleUnits, radiusTokens, shadowTokens>>
analysisVars == <<analysis>>
extractVars == <<dedupVars, linkVars, colorVars, a11yVars, componentVars, provenanceVars, tokenVars, analysisVars>>
vars == <<crawlVars, retryVars, stackVars, extractVars>>

---------------------------------------------------------------------------
(* Bounds of the model *)

MaxPagesBound == 1      \* largest whole maxPages an input supplies
MaxAnchors == 2         \* <a href> elements per page
MaxCssLinks == 1        \* stylesheet <link> elements per page
MaxRetriesBound == 3    \* largest maxRetries fetchWithRetry is called with
MaxMatches == 3         \* fingerprints matched by one corpus
MaxItems == 4           \* items handed to deduplicateByValue
MaxDecls == 2           \* custom-property declarations in one stylesheet unit
MaxColorCalls == 3      \* calls of extractColors in one run
MaxImages == 5          \* <img> tags in the pages of a session
MaxSheets == 4          \* stylesheets of a session, one rule each
MaxSessionPages == 2    \* pages of the session handed to extract
MaxTokenRules == 3      \* css rules in the units handed to the token extractors
MaxRobotsLines == 3     \* lines of a robots.txt
MaxLayoutSheets == 3    \* stylesheets of the session handed to the detectors

(* Program constants *)

MinMaxPages == 1            \* validateInput: maxPages < 1
MaxMaxPages == 20           \* validateInput: maxPages > 20
DefaultMaxPages == 6        \* normalizeConfig: input.maxPages ?? 6
DefaultMaxRetries == 3      \* fetchWithRetry: maxRetries = 3
DefaultInitialDelay == 1000 \* fetchWithRetry: initialDelay = 1000

---------------------------------------------------------------------------
(* URL strings *)

Str(k, sc, h, p, s, f) ==
    [kind |-> k, scheme |-> sc, host |-> h, path |-> p, search |-> s, hash |-> f]

\* an absolute http URL string; an empty path is what "http://a.test" has
Http(h, p, s, f) == Str("abs", "http:", h, p, s, f)
\* a host-relative reference such as "/p?q#f"
Rel(p, s, f) == Str("rel", "", "", p, s, f)
\* "mailto:someone@a.test"
Mailto == Str("mailto", "mailto:", "", "someone@a.test", "", "")
\* a string the URL parser rejects, such as "http://"
Unparseable == Str("bad", "", "", "", "", "")
\* the empty string
EmptyStr == Str("empty", "", "", "", "", "")
\* null
Null == Str("null", "", "", "", "", "")

\* new URL(url).href: the URL parser gives an http URL with no path the path "/"
Href(url) == [url EXCEPT !.path = IF url.kind = "abs" /\ @ = "" THEN "/" ELSE @]

\* does new URL(url) succeed with no base
Parses(url) == url.kind \in {"abs", "mailto"}

normalizeUrl(url, baseUrl) ==
    IF baseUrl # Null
    THEN IF ~Parses(baseUrl) THEN Null
         ELSE IF Parses(url) THEN Href(url)
         ELSE IF url.kind = "rel" /\ baseUrl.kind = "abs"
              THEN Str("abs", baseUrl.scheme, baseUrl.host, url.path, url.search, url.hash)
         ELSE Null
    ELSE IF Parses(url) THEN Href(url) ELSE Null

\* URL.origin: scheme and host for http, the string "null" for mailto
Origin(url) ==
    IF url.kind = "abs" THEN [scheme |-> url.scheme, host |-> url.host]
    ELSE [scheme |-> "null", host |-> ""]

isSameOrigin(url1, url2) ==
    IF Parses(url1) /\ Parses(url2) THEN Origin(url1) = Origin(url2) ELSE FALSE

getOrigin(url) == IF Parses(url) THEN Origin(url) ELSE Null

\* a strip that leaves the query string in place
KeepQuery(url) == [url EXCEPT !.hash = ""]

\* url.search = ''; url.hash = ''
StripQueryHash(url) == [url EXCEPT !.search = "", !.hash = ""]

\* Response.url never carries the fragment of the request
StripHash(url) == [url EXCEPT !.hash = ""]


---------------------------------------------------------------------------
(* extractLinks.  A document is the sequence of its <a href> values and   *)
(* the sequence of its stylesheet <link href> values; script sources play *)
(* no part in the crawl and are left out.                                 *)

\* "#top": the anchor pattern [^"'#][^"']* does not match it
Fragment == Str("frag", "", "", "", "", "#top")

Range(seq) == {seq[i] : i \in 1..Len(seq)}

\* an add that does not look for the element first
PushAlways(seq, x) == Append(seq, x)

\* Set.add followed by Array.from: insertion order, first occurrence kept
SetAdd(seq, x) == IF x \in Range(seq) THEN seq ELSE Append(seq, x)

RECURSIVE SetAddAll(_, _)
SetAddAll(seq, xs) ==
    IF xs = <<>> THEN seq ELSE SetAddAll(SetAdd(seq, Head(xs)), Tail(xs))

RECURSIVE CssLinksOf(_, _, _)
CssLinksOf(hrefs, baseUrl, acc) ==
    IF hrefs = <<>> THEN acc
    ELSE LET normalized == normalizeUrl(Head(hrefs), baseUrl)
         IN  CssLinksOf(Tail(hrefs), baseUrl,
                        IF normalized # Null THEN SetAdd(acc, normalized) ELSE acc)

RECURSIVE InternalLinksOf(_, _, _)
InternalLinksOf(anchors, baseUrl, acc) ==
    IF anchors = <<>> THEN acc
    ELSE LET href == Head(anchors)
             normalized == normalizeUrl(href, baseUrl)
             next ==
                 IF href.kind \in {"frag", "empty", "mailto"} THEN acc
                 ELSE IF normalized # Null /\ isSameOrigin(normalized, baseUrl)
                      THEN SetAdd(acc, Href(StripQueryHash(normalized)))
                      ELSE acc
         IN  InternalLinksOf(Tail(anchors), baseUrl, next)

extractLinks(html, baseUrl) ==
    [cssLinks |-> CssLinksOf(html.css, baseUrl, <<>>),
     internalLinks |-> InternalLinksOf(html.anchors, baseUrl, <<>>)]

---------------------------------------------------------------------------
(* checkRobotsTxt.  A robots.txt line is its field name and its value.    *)

UserAgent(agent) == [field |-> "User-agent:", value |-> agent]
Disallow(path) == [field |-> "Disallow:", value |-> path]
OtherLine == [field |-> "Allow:", value |-> "/"]

\* String.toLowerCase on the strings the model uses
ToLowerCase(s) ==
    CASE s = "User-agent:" -> "user-agent:"
      [] s = "Disallow:" -> "disallow:"
      [] s = "Allow:" -> "allow:"
      [] s = "GoogleBot" -> "googlebot"
      [] OTHER -> s

\* agent === 'bot'
EqualsBot(agent) == agent = "bot"

\* agent.includes('bot')
IncludesBot(agent) ==
    \E i \in 1..Len(agent) : i + 2 <= Len(agent) /\ SubSeq(agent, i, i + 2) = "bot"

\* the for loop over the lines; the result is the path of the first
\* root Disallow inside a matching block, "" when there is none
RECURSIVE RobotsScan(_, _)
RobotsScan(lines, inUserAgentBlock) ==
    IF lines = <<>> THEN ""
    ELSE LET field == ToLowerCase(Head(lines).field)
             value == ToLowerCase(Head(lines).value)
         IN  IF field = "user-agent:"
             THEN RobotsScan(Tail(lines), value = "*" \/ IncludesBot(value))
             ELSE IF inUserAgentBlock /\ field = "disallow:" /\ value \in {"/", "/*"}
                  THEN value
                  ELSE RobotsScan(Tail(lines), inUserAgentBlock)

\* the reply to GET <origin>/robots.txt
RobotsThrows == [kind |-> "throws", lines |-> <<>>]
RobotsNotOk == [kind |-> "not ok", lines |-> <<>>]
RobotsText(lines) == [kind |-> "text", lines |-> lines]
NoRobots == [kind |-> "none", lines |-> <<>>]

checkRobotsTxt(baseUrl, reply) ==
    IF getOrigin(baseUrl) = Null THEN [allowed |-> TRUE, warning |-> <<>>]
    ELSE IF reply.kind = "throws"
         THEN [allowed |-> TRUE, warning |-> <<"Could not fetch robots.txt: ", "fetch failed">>]
    ELSE IF reply.kind = "not ok"
         THEN [allowed |-> TRUE, warning |-> <<>>]
    ELSE LET path == RobotsScan(reply.lines, FALSE)
         IN  IF path # ""
             THEN [allowed |-> FALSE, warning |-> <<"robots.txt disallows crawling: ", path>>]
             ELSE [allowed |-> TRUE, warning |-> <<>>]

---------------------------------------------------------------------------
(* validateInput and normalizeConfig.  A number is counted in halves, so  *)
(* that 1.5 is a value; NaN is a number that compares false with all.     *)

Undefined == [t |-> "undefined"]
Num(h) == [t |-> "number", nan |-> FALSE, halves |-> h]
NaN == [t |-> "number", nan |-> TRUE, halves |-> 0]
StrVal(s) == [t |-> "string", s |-> s]
Bool(b) == [t |-> "boolean", b |-> b]

\* a < b on numbers
NumLess(a, b) == ~a.nan /\ ~b.nan /\ a.halves < b.halves


validateInput(in) ==
    LET urlErrors ==
            IF in.themeUrl.kind = "empty" THEN <<"themeUrl is required">>
            ELSE IF ~Parses(in.themeUrl) THEN <<"themeUrl must be a valid URL">>
            ELSE IF in.themeUrl.scheme \notin {"http:", "https:"}
                 THEN <<"themeUrl must use http or https protocol">>
            ELSE <<>>
        pageErrors ==
            IF in.maxPages # Undefined
               /\ (in.maxPages.t # "number"
                   \/ NumLess(in.maxPages, Num(2 * MinMaxPages))
                   \/ NumLess(Num(2 * MaxMaxPages), in.maxPages))
            THEN <<"maxPages must be a number between 1 and 20">>
            ELSE <<>>
        modeErrors ==
            IF in.mode # Undefined
               /\ in.mode \notin {StrVal("extract"), StrVal("prompt"), StrVal("both")}
            THEN <<"mode must be extract, prompt, or both">>
            ELSE <<>>
        errors == urlErrors \o pageErrors \o modeErrors
    IN  [valid |-> Len(errors) = 0, errors |-> errors]

\* a ?? b
Coalesce(a, b) == IF a = Undefined THEN b ELSE a

normalizeConfig(in) ==
    [themeUrl |-> in.themeUrl,
     maxPages |-> Coalesce(in.maxPages, Num(2 * DefaultMaxPages)),
     sameOriginOnly |-> Coalesce(in.sameOriginOnly, Bool(TRUE)).b,
     includeAssets |-> Coalesce(in.includeAssets, Bool(FALSE)).b,
     mode |-> Coalesce(in.mode, StrVal("both"))]

---------------------------------------------------------------------------
(* fetchWithRetry.  The network is the sequence of its answers to the     *)
(* successive calls: a response (its status, and where the request was    *)
(* redirected to, Null when it was not) or a rejection (status 0:         *)
(* connection error, timeout).  The result carries the calls made and the *)
(* delays slept, in order.                                                *)

Responds(status, redirect) == [status |-> status, redirect |-> redirect, error |-> ""]
Rejects(message) == [status |-> 0, redirect |-> Null, error |-> message]
NoResponse == [status |-> 0, redirect |-> Null, error |-> ""]

\* response.url of the response to a request for url (redirect: 'follow'):
\* the last url of the redirect chain, which never carries the request's fragment
ResponseUrl(url, resp) == IF resp.redirect = Null THEN StripHash(url) ELSE resp.redirect

CallEvent(status) == [e |-> "call", v |-> status]
SleepEvent(ms) == [e |-> "sleep", v |-> ms]

\* a retry rule that also retries client errors
RetryOnAnyError(status) == status >= 400

\* response.status === 429 || response.status >= 500
ShouldRetry(status) == status = 429 \/ status >= 500

\* a backoff that grows linearly
LinearBackoff(delay, k) == delay * (k + 1)

\* initialDelay * Math.pow(2, attempt)
Backoff(delay, k) == delay * 2^k

\* the catch block sleeps only if (attempt < maxRetries - 1)
SleepsAfterError(k, n) == k < n - 1

\* for (let attempt = 0; attempt < maxRetries; attempt++)
LoopContinues(k, n) == k < n

\* the for loop from `attempt` on, and the throw after it
RECURSIVE RetryLoop(_, _, _, _, _, _)
RetryLoop(attempt, lastError, done, n, delay, answers) ==
    IF ~LoopContinues(attempt, n)
    THEN [outcome |-> "thrown",
          response |-> Rejects(IF lastError # "null" THEN lastError
                               ELSE "Failed to fetch after max attempts"),
          events |-> done]
    ELSE LET answer == answers[attempt + 1]
             called == Append(done, CallEvent(answer.status))
             sleep == SleepEvent(Backoff(delay, attempt))
         IN  IF answer.status = 0
             THEN RetryLoop(attempt + 1, answer.error,
                            IF SleepsAfterError(attempt, n)
                            THEN Append(called, sleep) ELSE called,
                            n, delay, answers)
             ELSE IF ShouldRetry(answer.status)
             THEN RetryLoop(attempt + 1, lastError, Append(called, sleep),
                            n, delay, answers)
             ELSE [outcome |-> "returned", response |-> answer, events |-> called]

fetchWithRetry(n, delay, answers) == RetryLoop(0, "null", <<>>, n, delay, answers)

---------------------------------------------------------------------------
(* fetchPage and fetchCSS, given what fetchWithRetry produced *)

\* response.ok
Ok(status) == status >= 200 /\ status <= 299

\* `HTTP ${response.status}`
HttpError(status) == "HTTP " \o ToString(status)

\* html is the body of the response, bodyThrows whether reading it rejects
fetchPage(url, fetched, html, bodyThrows) ==
    IF fetched.outcome = "thrown"
    THEN [url |-> url, finalUrl |-> url, status |-> 0, cssLinks |-> <<>>,
          internalLinks |-> <<>>, error |-> fetched.response.error]
    ELSE IF ~Ok(fetched.response.status)
    THEN [url |-> url, finalUrl |-> ResponseUrl(url, fetched.response),
          status |-> fetched.response.status, cssLinks |-> <<>>,
          internalLinks |-> <<>>, error |-> HttpError(fetched.response.status)]
    ELSE IF bodyThrows
    THEN [url |-> url, finalUrl |-> url, status |-> 0, cssLinks |-> <<>>,
          internalLinks |-> <<>>, error |-> "terminated"]
    ELSE LET links == extractLinks(html, ResponseUrl(url, fetched.response))
         IN  [url |-> url, finalUrl |-> ResponseUrl(url, fetched.response),
              status |-> fetched.response.status,
              cssLinks |-> links.cssLinks, internalLinks |-> links.internalLinks,
              error |-> ""]

\* the stylesheet text, "null" when the fetch failed
fetchCSS(fetched, text, bodyThrows) ==
    IF fetched.outcome = "thrown" THEN "null"
    ELSE IF ~Ok(fetched.response.status) THEN "null"
    ELSE IF bodyThrows THEN "null"
    ELSE text

---------------------------------------------------------------------------
(* The inputs and the network the model draws from *)

RECURSIVE SeqsUpTo(_, _)
SeqsUpTo(S, n) ==
    IF n = 0 THEN {<<>>}
    ELSE LET shorter == SeqsUpTo(S, n - 1)
         IN  shorter \cup {Append(q, x) : q \in shorter, x \in S}

SeedStrings ==
    {EmptyStr, Unparseable, Str("abs", "ftp:", "a.test", "/", "", ""),
     Http("a.test", "", "", ""), Http("a.test", "/p", "?q", "#f")}

MaxPagesInputs ==
    {Undefined, NaN, StrVal("10"), Num(2 * MaxMaxPages + 1)}
        \cup {Num(h) : h \in 0..(2 * MaxPagesBound + 1)}

Inputs ==
    [themeUrl : SeedStrings,
     maxPages : MaxPagesInputs,
     sameOriginOnly : {Undefined, Bool(FALSE)},
     includeAssets : {Undefined, Bool(TRUE)},
     mode : {Undefined, StrVal("fast")}]

\* href values of the <a> elements of a page
Hrefs ==
    {Rel("/", "", ""), Http("a.test", "/p", "", ""), Http("a.test", "/p", "?q", "#f"),
     Http("c.test", "", "", ""), Mailto}

\* href values of the stylesheet <link> elements of a page
CssHrefs == {Rel("/s.css", "", "")}

Htmls == [anchors : SeqsUpTo(Hrefs, MaxAnchors), css : SeqsUpTo(CssHrefs, MaxCssLinks)]
NoHtml == [anchors |-> <<>>, css |-> <<>>]

\* bodies of a stylesheet response
CssTexts == {"", ":root{--tw-ring:0}"}

\* statuses a server answers with
Statuses == {200, 304, 404, 429, 500}

\* the statuses among them that the crawled sites answer with
CrawlStatuses == {200, 404, 500}

\* where a request may be redirected to
Redirects == {Null, Http("b.test", "/", "", "")}

\* what the network may answer to one request
Answers(statuses) ==
    {Responds(st, r) : st \in statuses, r \in Redirects} \cup {Rejects("fetch failed")}

\* what the network may answer to n successive requests
Nets(n, statuses) == [1..n -> Answers(statuses)]

\* what fetchWithRetry(url) may produce in a crawl, the events aside
Fetches ==
    {[f EXCEPT !.events = <<>>] :
        f \in {fetchWithRetry(DefaultMaxRetries, DefaultInitialDelay, answers) :
                  answers \in Nets(DefaultMaxRetries, CrawlStatuses)}}

\* robots.txt replies the crawl is run against
RobotsReplies ==
    {RobotsThrows, RobotsNotOk,
     RobotsText(<<UserAgent("*"), Disallow("/")>>)}

---------------------------------------------------------------------------
(* State after construction *)

NoConfig ==
    [themeUrl |-> Null, maxPages |-> Undefined, sameOriginOnly |-> TRUE,
     includeAssets |-> FALSE, mode |-> Undefined]

RetryIdle ==
    /\ retryUrl = Null
    /\ maxRetries = DefaultMaxRetries
    /\ initialDelay = DefaultInitialDelay
    /\ net = <<>>
    /\ rpc = "idle"
    /\ response = NoResponse
    /\ events = <<>>

StackIdle ==
    /\ corpus = {}
    /\ signals = <<>>

DedupIdle ==
    /\ items = <<>>
    /\ keyFn = <<>>
    /\ unique = <<>>

LinksIdle ==
    /\ linkDoc = NoHtml
    /\ linkBase = Null
    /\ docLinks = [cssLinks |-> <<>>, internalLinks |-> <<>>]

ColorsIdle ==
    /\ cssUnit = [css |-> <<>>, sourceUrl |-> Null]
    /\ colorTokens = <<>>
    /\ colorLastIndex = 0
    /\ colorCalls = 0

A11yIdle ==
    /\ imgTags = <<>>
    /\ altSignal = [feature |-> "", present |-> FALSE, details |-> <<>>, sourceUrl |-> Null]

ComponentsIdle ==
    /\ sheets = <<>>
    /\ components = <<>>

ProvenanceIdle ==
    /\ session = [startUrl |-> Null, pages |-> <<>>, cssContents |-> <<>>]
    /\ extraction = <<>>

TokensIdle ==
    /\ styleUnits = <<>>
    /\ radiusTokens = <<>>
    /\ shadowTokens = <<>>

AnalysisIdle ==
    /\ analysis = <<>>

ExtractIdle ==
    /\ AnalysisIdle
    /\ TokensIdle
    /\ ProvenanceIdle
    /\ ComponentsIdle
    /\ A11yIdle
    /\ ColorsIdle
    /\ DedupIdle
    /\ LinksIdle

CrawlIdle ==
    /\ config = NoConfig
    /\ robotsTxt = NoRobots
    /\ robotsCheck = [allowed |-> TRUE, warning |-> <<>>]
    /\ visited = {}
    /\ queue = <<>>
    /\ pages = <<>>
    /\ allCssLinks = <<>>
    /\ cssTodo = <<>>
    /\ cssContents = <<>>
    /\ totalRequests = 0
    /\ failedRequests = 0
    /\ netUsed = FALSE
    /\ fetchLog = <<>>
    /\ timeline = <<>>

Init ==
    /\ input \in Inputs
    /\ pc = "Idle"
    /\ CrawlIdle
    /\ RetryIdle
    /\ StackIdle
    /\ ExtractIdle

---------------------------------------------------------------------------
(* The timeline of a crawl *)

\* await sleep(500) and await sleep(300)
PageDelayMs == 500
CssDelayMs == 300

\* an awaited fetch of the crawl (kind "robots", "page" or "css") and whether
\* its response was ok; a delay slept
FetchEvent(kind, url, ok) == [e |-> kind, url |-> url, ok |-> ok, ms |-> 0]
DelayEvent(ms) == [e |-> "sleep", url |-> Null, ok |-> FALSE, ms |-> ms]

\* the response fetchWithRetry returned has a 2xx status
ResponseOk(fetched) == fetched.outcome = "returned" /\ Ok(fetched.response.status)

\* a delay slept only after a page that was fetched
DelayAfterFetched(result) == IF result.error # "" THEN 0 ELSE PageDelayMs

\* await sleep(500), at the end of the loop body whatever the result
DelayAfterPage(result) == PageDelayMs

---------------------------------------------------------------------------
(* runExtractor up to the call of crawl, and crawl's robots.txt check *)

RunExtractor ==
    /\ pc = "Idle"
    /\ LET validation == validateInput(input)
       IN  IF ~validation.valid
           THEN /\ pc' = "Failed"
                /\ UNCHANGED <<config, queue>>
           ELSE /\ config' = normalizeConfig(input)
                /\ queue' = <<input.themeUrl>>
                /\ pc' = "RobotsCheck"
    /\ UNCHANGED <<input, robotsTxt, robotsCheck, visited, pages, allCssLinks, cssTodo,
                   cssContents, totalRequests, failedRequests, netUsed, fetchLog,
                   timeline>>
    /\ UNCHANGED <<retryVars, stackVars, extractVars>>

RobotsCheck ==
    /\ pc = "RobotsCheck"
    /\ \E reply \in RobotsReplies :
          /\ robotsTxt' = IF getOrigin(config.themeUrl) # Null THEN reply ELSE NoRobots
          /\ robotsCheck' = checkRobotsTxt(config.themeUrl, reply)
    /\ netUsed' = (netUsed \/ getOrigin(config.themeUrl) # Null)
    /\ timeline' = IF getOrigin(config.themeUrl) # Null
                   THEN Append(timeline, FetchEvent("robots", config.themeUrl, robotsTxt'.kind = "text"))
                   ELSE timeline
    /\ pc' = "Draining"
    /\ UNCHANGED <<input, config, visited, queue, pages, allCssLinks, cssTodo,
                   cssContents, totalRequests, failedRequests, fetchLog>>
    /\ UNCHANGED <<retryVars, stackVars, extractVars>>

robotsTxtStatus == IF robotsCheck.allowed THEN "allowed" ELSE "blocked"

---------------------------------------------------------------------------
(* crawl: the page loop and the stylesheet pass.  One action is one pass  *)
(* of a loop, its network requests and its rate-limiting sleep included.  *)

\* queue.length > 0 && pages.length < config.maxPages
LoopGuard == Len(queue) > 0 /\ NumLess(Num(2 * Len(pages)), config.maxPages)

\* reading the head of the queue without removing it
Peek(q) == q

\* queue.shift(): the queue without its first element
Shift(q) == Tail(q)

\* for (const link of result.internalLinks) if (!visited.has(link)) queue.push(link)
RECURSIVE Enqueue(_, _, _)
Enqueue(q, links, seen) ==
    IF links = <<>> THEN q
    ELSE Enqueue(IF Head(links) \notin seen THEN Append(q, Head(links)) ELSE q,
                 Tail(links), seen)

\* if (!normalizedUrl || visited.has(normalizedUrl)) continue
SkipVisited ==
    /\ pc = "Draining"
    /\ LoopGuard
    /\ LET normalizedUrl == normalizeUrl(Head(queue), Null)
       IN  normalizedUrl = Null \/ normalizedUrl \in visited
    /\ queue' = Shift(queue)
    /\ UNCHANGED <<input, pc, config, robotsTxt, robotsCheck, visited, pages, allCssLinks,
                   cssTodo, cssContents, totalRequests, failedRequests, netUsed, fetchLog,
                   timeline>>
    /\ UNCHANGED <<retryVars, stackVars, extractVars>>

\* visited.add(normalizedUrl); if (sameOriginOnly && !isSameOrigin(...)) continue
SkipOtherOrigin ==
    /\ pc = "Draining"
    /\ LoopGuard
    /\ LET normalizedUrl == normalizeUrl(Head(queue), Null)
       IN  /\ normalizedUrl # Null
           /\ normalizedUrl \notin visited
           /\ config.sameOriginOnly
           /\ ~isSameOrigin(normalizedUrl, config.themeUrl)
           /\ visited' = visited \cup {normalizedUrl}
    /\ queue' = Shift(queue)
    /\ UNCHANGED <<input, pc, config, robotsTxt, robotsCheck, pages, allCssLinks,
                   cssTodo, cssContents, totalRequests, failedRequests, netUsed, fetchLog,
                   timeline>>
    /\ UNCHANGED <<retryVars, stackVars, extractVars>>

\* a loop body that keeps only the pages whose fetch succeeded
PushIfFetched(ps, result) == IF result.error # "" THEN ps ELSE Append(ps, result)

\* pages.push({url: result.url, ..., error: result.error})
PagesPush(ps, result) == Append(ps, result)

\* the rest of the loop body: fetchPage, pages.push, the links, sleep(500)
CrawlFetch ==
    /\ pc = "Draining"
    /\ LoopGuard
    /\ LET normalizedUrl == normalizeUrl(Head(queue), Null)
       IN  /\ normalizedUrl # Null
           /\ normalizedUrl \notin visited
           /\ ~(config.sameOriginOnly /\ ~isSameOrigin(normalizedUrl, config.themeUrl))
           /\ visited' = visited \cup {normalizedUrl}
           /\ fetchLog' = Append(fetchLog, normalizedUrl)
           /\ \E fetched \in Fetches :
              \E html \in IF fetched.outcome = "returned" /\ Ok(fetched.response.status)
                          THEN Htmls ELSE {NoHtml} :
              \E bodyThrows \in IF html \in {NoHtml} THEN {FALSE} ELSE BOOLEAN :
                 LET result == fetchPage(normalizedUrl, fetched, html, bodyThrows)
                 IN  /\ failedRequests' = IF result.error # "" THEN failedRequests + 1
                                          ELSE failedRequests
                     /\ pages' = PagesPush(pages, result)
                     /\ timeline' = timeline \o <<FetchEvent("page", normalizedUrl, result.error = ""),
                                                   DelayEvent(DelayAfterPage(result))>>
                     /\ allCssLinks' = SetAddAll(allCssLinks, result.cssLinks)
                     /\ queue' = Enqueue(Shift(queue), result.internalLinks, visited')
    /\ totalRequests' = totalRequests + 1
    /\ netUsed' = TRUE
    /\ UNCHANGED <<input, pc, config, robotsTxt, robotsCheck, cssTodo, cssContents>>
    /\ UNCHANGED <<retryVars, stackVars, extractVars>>

\* the page loop ends
DrainExit ==
    /\ pc = "Draining"
    /\ ~LoopGuard
    /\ IF config.includeAssets
       THEN /\ pc' = "AssetFetch"
            /\ cssTodo' = allCssLinks
       ELSE /\ pc' = "Done"
            /\ UNCHANGED cssTodo
    /\ UNCHANGED <<input, config, robotsTxt, robotsCheck, visited, queue, pages,
                   allCssLinks, cssContents, totalRequests, failedRequests, netUsed,
                   fetchLog,
                   timeline>>
    /\ UNCHANGED <<retryVars, stackVars, extractVars>>

\* cssContents.set(cssUrl, css)
MapSet(map, key, value) ==
    IF \E i \in 1..Len(map) : map[i].key = key
    THEN [i \in 1..Len(map) |->
             IF map[i].key = key THEN [key |-> key, value |-> value] ELSE map[i]]
    ELSE Append(map, [key |-> key, value |-> value])

\* one pass of for (const cssUrl of allCssLinks): fetchCSS, the map, sleep(300)
CssFetch ==
    /\ pc = "AssetFetch"
    /\ cssTodo # <<>>
    /\ \E fetched \in Fetches, text \in CssTexts, bodyThrows \in BOOLEAN :
          LET css == fetchCSS(fetched, text, bodyThrows)
          IN  /\ IF css # "null" /\ css # ""
                 THEN /\ cssContents' = MapSet(cssContents, Head(cssTodo), css)
                      /\ UNCHANGED failedRequests
                 ELSE /\ failedRequests' = failedRequests + 1
                      /\ UNCHANGED cssContents
              /\ timeline' = timeline \o <<FetchEvent("css", Head(cssTodo), ResponseOk(fetched)),
                                            DelayEvent(CssDelayMs)>>
    /\ totalRequests' = totalRequests + 1
    /\ cssTodo' = Tail(cssTodo)
    /\ UNCHANGED <<input, pc, config, robotsTxt, robotsCheck, visited, queue, pages,
                   allCssLinks, netUsed, fetchLog>>
    /\ UNCHANGED <<retryVars, stackVars, extractVars>>

\* the stylesheet pass ends: crawl returns the session
AssetExit ==
    /\ pc = "AssetFetch"
    /\ cssTodo = <<>>
    /\ pc' = "Done"
    /\ UNCHANGED <<input, config, robotsTxt, robotsCheck, visited, queue, pages,
                   allCssLinks, cssTodo, cssContents, totalRequests, failedRequests,
                   netUsed, fetchLog,
                   timeline>>
    /\ UNCHANGED <<retryVars, stackVars, extractVars>>

Next ==
    \/ RunExtractor
    \/ RobotsCheck
    \/ SkipVisited
    \/ SkipOtherOrigin
    \/ CrawlFetch
    \/ DrainExit
    \/ CssFetch
    \/ AssetExit

Spec == Init /\ [][Next]_vars

---------------------------------------------------------------------------
(* The crawl under the scheduling of the event loop: every network request *)
(* and every delay completes, so a step that can be taken is taken.        *)

FairSpec == Spec /\ WF_vars(Next)

---------------------------------------------------------------------------
(* fetchWithRetry on its own, called with parameters of the caller's choice *)

NoInput ==
    [themeUrl |-> EmptyStr, maxPages |-> Undefined, sameOriginOnly |-> Undefined,
     includeAssets |-> Undefined, mode |-> Undefined]

\* what the network may answer to a request of fetchWithRetry: a response, a
\* connection error, or the abort of AbortSignal.timeout(30000)
RetryAnswers == Answers(Statuses) \cup {Rejects("The operation was aborted due to timeout")}

InitRetry ==
    /\ input = NoInput
    /\ pc = "Retry"
    /\ CrawlIdle
    /\ StackIdle
    /\ ExtractIdle
    /\ retryUrl = Http("a.test", "/p", "?q", "#f")
    /\ maxRetries \in 0..MaxRetriesBound
    /\ initialDelay \in {DefaultInitialDelay, 250}
    /\ net \in [1..maxRetries -> RetryAnswers]
    /\ rpc = "called"
    /\ response = NoResponse
    /\ events = <<>>

FetchWithRetry ==
    /\ pc = "Retry"
    /\ rpc = "called"
    /\ LET fetched == fetchWithRetry(maxRetries, initialDelay, net)
       IN  /\ rpc' = fetched.outcome
           /\ response' = fetched.response
           /\ events' = fetched.events
    /\ netUsed' = (netUsed \/ \E i \in 1..Len(events') : events'[i].e = "call")
    /\ UNCHANGED <<retryUrl, maxRetries, initialDelay, net>>
    /\ UNCHANGED <<input, pc, config, robotsTxt, robotsCheck, visited, queue, pages,
                   allCssLinks, cssTodo, cssContents, totalRequests, failedRequests,
                   fetchLog,
                   timeline>>
    /\ UNCHANGED <<stackVars, extractVars>>

NextRetry == FetchWithRetry

SpecRetry == InitRetry /\ [][NextRetry]_vars

---------------------------------------------------------------------------
(* detectStack.  A fingerprint is <<d, i>>: pattern i of detector d; the  *)
(* corpus is the set of fingerprints whose regex matches allContent.      *)
(* Weights and confidences are in hundredths.                             *)

STACK_DETECTORS ==
    <<
     [name |-> "Next.js", category |-> "framework",
      patterns |->
         <<[description |-> "__NEXT_DATA__ script", weight |-> 90],
           [description |-> "/_next/ assets", weight |-> 80],
           [description |-> "next/head import", weight |-> 70],
           [description |-> "Next.js script attribute", weight |-> 60]>>],
     [name |-> "React", category |-> "framework",
      patterns |->
         <<[description |-> "data-reactroot attribute", weight |-> 90],
           [description |-> "React DevTools", weight |-> 80],
           [description |-> "React bundle", weight |-> 70],
           [description |-> "react-dom reference", weight |-> 60]>>],
     [name |-> "Vue.js", category |-> "framework",
      patterns |->
         <<[description |-> "Vue scoped style attribute", weight |-> 90],
           [description |-> "__VUE__ global", weight |-> 80],
           [description |-> "Vue bundle", weight |-> 70]>>],
     [name |-> "Nuxt", category |-> "framework",
      patterns |->
         <<[description |-> "__NUXT__ data", weight |-> 90],
           [description |-> "/_nuxt/ assets", weight |-> 80]>>],
     [name |-> "Svelte", category |-> "framework",
      patterns |->
         <<[description |-> "Svelte class pattern", weight |-> 80],
           [description |-> "__svelte marker", weight |-> 90]>>],
     [name |-> "Tailwind CSS", category |-> "css-framework",
      patterns |->
         <<[description |-> "tailwindcss reference", weight |-> 90],
           [description |-> "Tailwind CSS variable", weight |-> 85],
           [description |-> "Tailwind utility classes", weight |-> 60],
           [description |-> "Tailwind breakpoint prefix", weight |-> 70]>>],
     [name |-> "shadcn/ui", category |-> "ui-library",
      patterns |->
         <<[description |-> "@radix-ui import", weight |-> 80],
           [description |-> "cn() utility function", weight |-> 60],
           [description |-> "Radix state attribute", weight |-> 70],
           [description |-> "CVA import", weight |-> 80]>>],
     [name |-> "Bootstrap", category |-> "css-framework",
      patterns |->
         <<[description |-> "Bootstrap CSS", weight |-> 90],
           [description |-> "Bootstrap grid classes", weight |-> 70],
           [description |-> "Bootstrap button classes", weight |-> 80]>>],
     [name |-> "Material UI", category |-> "ui-library",
      patterns |->
         <<[description |-> "@mui/ import", weight |-> 90],
           [description |-> "MUI component class", weight |-> 80],
           [description |-> "Emotion (MUI styling)", weight |-> 50]>>],
     [name |-> "Chakra UI", category |-> "ui-library",
      patterns |->
         <<[description |-> "@chakra-ui import", weight |-> 90],
           [description |-> "Chakra class prefix", weight |-> 70]>>],
     [name |-> "Vite", category |-> "build-tool",
      patterns |->
         <<[description |-> "@vite reference", weight |-> 80],
           [description |-> "Vite config", weight |-> 90]>>],
     [name |-> "Webpack", category |-> "build-tool",
      patterns |->
         <<[description |-> "Webpack runtime", weight |-> 80],
           [description |-> "Webpack require", weight |-> 90]>>]
    >>

Fingerprints ==
    UNION {{<<d, i>> : i \in 1..Len(STACK_DETECTORS[d].patterns)} :
              d \in 1..Len(STACK_DETECTORS)}

Max(a, b) == IF a >= b THEN a ELSE b
Min(a, b) == IF a <= b THEN a ELSE b

\* a boost without its ceiling
UncappedBoost(evidenceCount) == 10 * (evidenceCount - 1)

\* Math.min(0.1 * (evidence.length - 1), 0.15)
ConfidenceBoost(evidenceCount) == Min(10 * (evidenceCount - 1), 15)

\* Math.min(maxConfidence + confidenceBoost, 1)
FinalConfidence(maxConfidence, evidenceCount) ==
    Min(maxConfidence + ConfidenceBoost(evidenceCount), 100)

\* maxConfidence + confidenceBoost is a sum of doubles: the sign of its rounding
\* error against the decimal sum (0.7 + 0.1 is 0.7999999999999999, 0.8 + 0.15
\* is 0.9500000000000001, every other sum of a weight and a boost is exact)
SumRounding(maxConfidence, evidenceCount) ==
    LET boost == ConfidenceBoost(evidenceCount)
    IN  IF maxConfidence = 70 /\ boost = 10 THEN -1
        ELSE IF maxConfidence = 80 /\ boost = 15 THEN 1
        ELSE 0

\* Math.max(maxConfidence, pattern.weight)
TrackWeight(maxConfidence, weight) == Max(maxConfidence, weight)

\* for (const pattern of detector.patterns), from pattern i on
RECURSIVE ScanPatterns(_, _, _, _, _)
ScanPatterns(d, i, evidence, maxConfidence, matched) ==
    IF i > Len(STACK_DETECTORS[d].patterns)
    THEN [evidence |-> evidence, maxConfidence |-> maxConfidence]
    ELSE LET pattern == STACK_DETECTORS[d].patterns[i]
         IN  IF <<d, i>> \in matched
             THEN ScanPatterns(d, i + 1, Append(evidence, pattern.description),
                               TrackWeight(maxConfidence, pattern.weight), matched)
             ELSE ScanPatterns(d, i + 1, evidence, maxConfidence, matched)

\* for (const detector of STACK_DETECTORS), from detector d on: the Map's values
RECURSIVE ScanDetectors(_, _, _)
ScanDetectors(d, found, matched) ==
    IF d > Len(STACK_DETECTORS) THEN found
    ELSE LET scan == ScanPatterns(d, 1, <<>>, 0, matched)
         IN  IF Len(scan.evidence) > 0
             THEN ScanDetectors(d + 1,
                      Append(found,
                             [name |-> STACK_DETECTORS[d].name,
                              category |-> STACK_DETECTORS[d].category,
                              confidence |-> FinalConfidence(scan.maxConfidence,
                                                             Len(scan.evidence)),
                              rounding |-> SumRounding(scan.maxConfidence,
                                                       Len(scan.evidence)),
                              evidence |-> scan.evidence]),
                      matched)
             ELSE ScanDetectors(d + 1, found, matched)

\* b.confidence - a.confidence < 0 on the doubles: a sorts before b
Outranks(a, b) ==
    \/ a.confidence > b.confidence
    \/ a.confidence = b.confidence /\ a.rounding > b.rounding

\* an insertion that puts x before the elements it ties with
RECURSIVE InsertBeforeTies(_, _)
InsertBeforeTies(sorted, x) ==
    IF sorted = <<>> THEN <<x>>
    ELSE IF Outranks(Head(sorted), x)
         THEN <<Head(sorted)>> \o InsertBeforeTies(Tail(sorted), x)
         ELSE <<x>> \o sorted

\* Array.prototype.sort((a, b) => b.confidence - a.confidence): stable, so x
\* goes after every element it does not outrank
RECURSIVE InsertByConfidence(_, _)
InsertByConfidence(sorted, x) ==
    IF sorted = <<>> THEN <<x>>
    ELSE IF ~Outranks(x, Head(sorted))
         THEN <<Head(sorted)>> \o InsertByConfidence(Tail(sorted), x)
         ELSE <<x>> \o sorted

RECURSIVE SortByConfidence(_)
SortByConfidence(seq) ==
    IF seq = <<>> THEN <<>>
    ELSE InsertByConfidence(SortByConfidence(SubSeq(seq, 1, Len(seq) - 1)), seq[Len(seq)])

detectStack(matched) == SortByConfidence(ScanDetectors(1, <<>>, matched))

RECURSIVE SubsetsUpTo(_, _)
SubsetsUpTo(S, n) ==
    IF n = 0 THEN {{}}
    ELSE LET smaller == SubsetsUpTo(S, n - 1)
         IN  smaller \cup {x \cup {f} : x \in smaller, f \in S}

InitStack ==
    /\ input = NoInput
    /\ pc = "Extract"
    /\ CrawlIdle
    /\ RetryIdle
    /\ corpus \in SubsetsUpTo(Fingerprints, MaxMatches)
    /\ signals = <<>>
    /\ ExtractIdle

DetectStack ==
    /\ pc = "Extract"
    /\ signals' = detectStack(corpus)
    /\ pc' = "Extracted"
    /\ UNCHANGED <<input, config, robotsTxt, robotsCheck, visited, queue, pages,
                   allCssLinks, cssTodo, cssContents, totalRequests, failedRequests,
                   netUsed, fetchLog,
                   timeline>>
    /\ UNCHANGED <<retryVars, corpus, extractVars>>

NextStack == DetectStack

SpecStack == InitStack /\ [][NextStack]_vars

---------------------------------------------------------------------------
(* deduplicateByValue.  keyFn is a function from items to their keys.     *)

\* a filter that remembers only the key of the item before
RECURSIVE FilterAdjacent(_, _, _)
FilterAdjacent(rest, seen, key) ==
    IF rest = <<>> THEN <<>>
    ELSE IF key[Head(rest)] \in seen
         THEN FilterAdjacent(Tail(rest), seen, key)
         ELSE <<Head(rest)>> \o FilterAdjacent(Tail(rest), {key[Head(rest)]}, key)

\* items.filter(item => { if (seen.has(key)) return false; seen.add(key); return true })
RECURSIVE FilterUnseen(_, _, _)
FilterUnseen(rest, seen, key) ==
    IF rest = <<>> THEN <<>>
    ELSE IF key[Head(rest)] \in seen
         THEN FilterUnseen(Tail(rest), seen, key)
         ELSE <<Head(rest)>> \o FilterUnseen(Tail(rest), seen \cup {key[Head(rest)]}, key)

\* const seen = new Set<string>(); return items.filter(...)
deduplicateByValue(its, key) == FilterUnseen(its, {}, key)

\* tokens of two values under two names each
Tokens == [value : {"#fff", "#000"}, name : {"--a", "--b"}]

\* (c) => c.value, and a key function that reads the name
KeyFns == {[t \in Tokens |-> t.value], [t \in Tokens |-> t.name]}

InitDedup ==
    /\ input = NoInput
    /\ pc = "Dedup"
    /\ CrawlIdle
    /\ RetryIdle
    /\ StackIdle
    /\ AnalysisIdle
    /\ TokensIdle
    /\ ProvenanceIdle
    /\ ComponentsIdle
    /\ A11yIdle
    /\ ColorsIdle
    /\ LinksIdle
    /\ items \in SeqsUpTo(Tokens, MaxItems)
    /\ keyFn \in KeyFns
    /\ unique = <<>>

\* deduplicateByValue applied to the items, then to its own result
Deduplicate ==
    /\ pc = "Dedup"
    /\ Len(unique) < 2
    /\ unique' = Append(unique,
                        deduplicateByValue(IF unique = <<>> THEN items
                                           ELSE unique[Len(unique)], keyFn))
    /\ UNCHANGED <<items, keyFn>>
    /\ UNCHANGED <<input, pc, crawlLocals, retryVars, stackVars, linkVars, colorVars, a11yVars, componentVars, provenanceVars, tokenVars, analysisVars>>

NextDedup == Deduplicate

SpecDedup == InitDedup /\ [][NextDedup]_vars

---------------------------------------------------------------------------
(* extractLinks on its own, called on a document and a base of the        *)
(* caller's choice                                                         *)

\* href values of the anchors of a document
AnchorHrefs == Hrefs \cup {Fragment, Unparseable, Rel("/p", "?x", "")}

LinkDocs == [anchors : SeqsUpTo(AnchorHrefs, MaxAnchors), css : SeqsUpTo(CssHrefs, MaxCssLinks)]

LinkBases ==
    {Http("a.test", "/", "", ""), Http("a.test", "/p", "?q", ""), Http("b.test", "/", "", "")}

InitLinks ==
    /\ input = NoInput
    /\ pc = "Links"
    /\ CrawlIdle
    /\ RetryIdle
    /\ StackIdle
    /\ AnalysisIdle
    /\ TokensIdle
    /\ ProvenanceIdle
    /\ ComponentsIdle
    /\ A11yIdle
    /\ ColorsIdle
    /\ DedupIdle
    /\ linkDoc \in LinkDocs
    /\ linkBase \in LinkBases
    /\ docLinks = [cssLinks |-> <<>>, internalLinks |-> <<>>]

ExtractLinks ==
    /\ pc = "Links"
    /\ docLinks' = extractLinks(linkDoc, linkBase)
    /\ pc' = "Linked"
    /\ UNCHANGED <<linkDoc, linkBase>>
    /\ UNCHANGED <<input, crawlLocals, retryVars, stackVars, dedupVars, colorVars, a11yVars, componentVars, provenanceVars, tokenVars, analysisVars>>

NextLinks == ExtractLinks

SpecLinks == InitLinks /\ [][NextLinks]_vars

---------------------------------------------------------------------------
(* extractColors.  A stylesheet unit is the sequence of its custom-       *)
(* property declarations `--name: value`, which is what CSS_VAR_REGEX     *)
(* finds in it; a name is the sequence of its hyphen-separated words.     *)
(* COLOR_REGEX is a module-level regex with the g flag: test and exec     *)
(* start at its lastIndex and leave it behind.                            *)

\* the matches of COLOR_REGEX in a trimmed value: [start, end) and text
ColorMatches(value) ==
    CASE value = "#102030" -> <<[start |-> 0, end |-> 7, text |-> "#102030"]>>
      [] value = "#fff" -> <<[start |-> 0, end |-> 4, text |-> "#fff"]>>
      [] value = "rgb(0, 0, 0)" -> <<[start |-> 0, end |-> 12, text |-> "rgb(0, 0, 0)"]>>
      [] value = "1px solid #ccc" -> <<[start |-> 10, end |-> 14, text |-> "#ccc"]>>
      [] OTHER -> <<>>

\* value.length
Length(value) ==
    CASE value = "#102030" -> 7
      [] value = "#fff" -> 4
      [] value = "rgb(0, 0, 0)" -> 12
      [] value = "1px solid #ccc" -> 14
      [] value = "16px" -> 4
      [] OTHER -> 0

\* RegExp.prototype.exec with the g flag, started at lastIndex: the first
\* match at or after it, and the lastIndex it leaves (0 when none is found)
RegexExec(value, lastIndex) ==
    LET from == {i \in 1..Len(ColorMatches(value)) :
                    ColorMatches(value)[i].start >= lastIndex}
    IN  IF lastIndex > Length(value) \/ from = {}
        THEN [found |-> FALSE, text |-> "", lastIndex |-> 0]
        ELSE LET first == CHOOSE i \in from : \A j \in from : i <= j
             IN  [found |-> TRUE, text |-> ColorMatches(value)[first].text,
                  lastIndex |-> ColorMatches(value)[first].end]

\* value.startsWith(prefix), on the colour texts of the model
StartsWith(value, prefix) ==
    CASE prefix = "#" -> value \in {"#102030", "#fff", "#ccc"}
      [] prefix = "rgb" -> value = "rgb(0, 0, 0)"
      [] OTHER -> FALSE

getColorFormat(value) ==
    IF StartsWith(value, "#") THEN "hex"
    ELSE IF StartsWith(value, "rgba") THEN "rgba"
    ELSE IF StartsWith(value, "rgb") THEN "rgb"
    ELSE IF StartsWith(value, "hsla") THEN "hsla"
    ELSE IF StartsWith(value, "hsl") THEN "hsl"
    ELSE "named"

\* /keyword/i.test(lowerName), a keyword being one of the alternatives
Mentions(name, keywords) == \E i \in 1..Len(name) : name[i] \in keywords

inferColorUsage(name) ==
    IF Mentions(name, {"background", "bg"}) THEN "background"
    ELSE IF Mentions(name, {"foreground", "fg", "text"}) THEN "foreground"
    ELSE IF Mentions(name, {"primary"}) THEN "primary"
    ELSE IF Mentions(name, {"secondary"}) THEN "secondary"
    ELSE IF Mentions(name, {"accent"}) THEN "accent"
    ELSE IF Mentions(name, {"border"}) THEN "border"
    ELSE "unknown"

\* colors.has(colorValue)
MapHas(colors, key) == \E i \in 1..Len(colors) : colors[i].value = key

\* the while loop over the declarations, from the first of decls on
RECURSIVE ColorScan(_, _, _, _)
ColorScan(decls, colors, lastIndex, sourceUrl) ==
    IF decls = <<>> THEN [tokens |-> colors, lastIndex |-> lastIndex]
    ELSE LET name == Head(decls).name
             trimmedValue == Head(decls).value
             tested == RegexExec(trimmedValue, lastIndex)
             colorMatch == RegexExec(trimmedValue, 0)
         IN  IF ~tested.found
             THEN ColorScan(Tail(decls), colors, tested.lastIndex, sourceUrl)
             ELSE IF colorMatch.found /\ ~MapHas(colors, colorMatch.text)
             THEN ColorScan(Tail(decls),
                            Append(colors,
                                   [name |-> <<"--">> \o name,
                                    value |-> colorMatch.text,
                                    format |-> getColorFormat(colorMatch.text),
                                    usage |-> inferColorUsage(name),
                                    sourceUrl |-> sourceUrl]),
                            colorMatch.lastIndex, sourceUrl)
             ELSE ColorScan(Tail(decls), colors, colorMatch.lastIndex, sourceUrl)

\* the tokens, and the lastIndex COLOR_REGEX is left with
extractColors(css, sourceUrl, lastIndex) == ColorScan(css, <<>>, lastIndex, sourceUrl)

\* names of custom properties
ColorNames ==
    {<<"color", "primary", "bg">>, <<"primary">>, <<"text", "accent">>,
     <<"secondary", "border">>, <<"accent", "border">>, <<"border">>, <<"brand">>}

\* declarations: each name with a hex colour, and values of other shapes
Declarations ==
    [name : ColorNames, value : {"#102030"}]
        \cup [name : {<<"brand">>}, value : {"#fff", "rgb(0, 0, 0)", "1px solid #ccc", "16px"}]

CssUnits == [css : SeqsUpTo(Declarations, MaxDecls), sourceUrl : {Http("a.test", "/s.css", "", "")}]

InitColors ==
    /\ input = NoInput
    /\ pc = "Colors"
    /\ CrawlIdle
    /\ RetryIdle
    /\ StackIdle
    /\ AnalysisIdle
    /\ TokensIdle
    /\ ProvenanceIdle
    /\ ComponentsIdle
    /\ A11yIdle
    /\ DedupIdle
    /\ LinksIdle
    /\ ColorsIdle

\* one call of extractColors by extract, on a unit of the session
ExtractColors ==
    /\ pc = "Colors"
    /\ colorCalls < MaxColorCalls
    /\ \E unit \in CssUnits :
          LET result == extractColors(unit.css, unit.sourceUrl, colorLastIndex)
          IN  /\ cssUnit' = unit
              /\ colorTokens' = result.tokens
              /\ colorLastIndex' = result.lastIndex
    /\ colorCalls' = colorCalls + 1
    /\ UNCHANGED <<input, pc, crawlLocals, retryVars, stackVars, dedupVars, linkVars, a11yVars, componentVars, provenanceVars, tokenVars, analysisVars>>

NextColors == ExtractColors

SpecColors == InitColors /\ [][NextColors]_vars

---------------------------------------------------------------------------
(* detectAccessibilitySignals: the "Image Alt Text" signal.  An <img> tag *)
(* is the sequence of its attribute names; a ratio is a pair of naturals. *)

\* /alt=/i.test(img), on the attribute names of the model
HasAlt(img) == \E i \in 1..Len(img) : img[i] \in {"alt", "ALT"}

\* imgTags.filter((img) => /alt=/i.test(img)).length
RECURSIVE CountWithAlt(_)
CountWithAlt(tags) ==
    IF tags = <<>> THEN 0
    ELSE (IF HasAlt(Head(tags)) THEN 1 ELSE 0) + CountWithAlt(Tail(tags))

\* imgTags.length > 0 ? imgWithAlt / imgTags.length : 1
AltCoverage(imgWithAlt, total) ==
    IF total > 0 THEN [num |-> imgWithAlt, den |-> total] ELSE [num |-> 1, den |-> 1]

\* a test that lets the threshold itself through
AtLeastTenths(ratio, tenths) == 10 * ratio.num >= tenths * ratio.den

\* ratio > tenths / 10, as in altCoverage > 0.8
MoreThanTenths(ratio, tenths) == 10 * ratio.num > tenths * ratio.den

\* Math.round(ratio * 100): halves round up
RoundPercent(ratio) == (200 * ratio.num + ratio.den) \div (2 * ratio.den)

\* `${imgWithAlt}/${imgTags.length} images have alt text (${...}%)`
AltDetails(imgWithAlt, total, percent) ==
    <<imgWithAlt, "/", total, " images have alt text (", percent, "%)">>

\* the signal pushed for the alt text of images
ImageAltSignal(tags, startUrl) ==
    LET imgWithAlt == CountWithAlt(tags)
        altCoverage == AltCoverage(imgWithAlt, Len(tags))
    IN  [feature |-> "Image Alt Text",
         present |-> MoreThanTenths(altCoverage, 8),
         details |-> AltDetails(imgWithAlt, Len(tags), RoundPercent(altCoverage)),
         sourceUrl |-> startUrl]

\* <img src>, <img src alt>, <img ALT src class>
ImgTagKinds == {<<"src">>, <<"src", "alt">>, <<"ALT", "src", "class">>}

InitA11y ==
    /\ input = NoInput
    /\ pc = "A11y"
    /\ CrawlIdle
    /\ RetryIdle
    /\ StackIdle
    /\ AnalysisIdle
    /\ TokensIdle
    /\ ProvenanceIdle
    /\ ComponentsIdle
    /\ DedupIdle
    /\ LinksIdle
    /\ ColorsIdle
    /\ imgTags \in SeqsUpTo(ImgTagKinds, MaxImages)
    /\ altSignal = [feature |-> "", present |-> FALSE, details |-> <<>>, sourceUrl |-> Null]

DetectAccessibilitySignals ==
    /\ pc = "A11y"
    /\ altSignal' = ImageAltSignal(imgTags, Http("a.test", "", "", ""))
    /\ pc' = "A11yDone"
    /\ UNCHANGED imgTags
    /\ UNCHANGED <<input, crawlLocals, retryVars, stackVars, dedupVars, linkVars, colorVars, componentVars, provenanceVars, tokenVars, analysisVars>>

NextA11y == DetectAccessibilitySignals

SpecA11y == InitA11y /\ [][NextA11y]_vars

---------------------------------------------------------------------------
(* detectComponentPatterns.  Stylesheets are strings; the regular         *)
(* expressions of the table are matched on them character by character.   *)
(* The texts of the model are lower case, so the i flag changes nothing.  *)

\* Array.join('\n')
RECURSIVE Join(_)
Join(texts) ==
    IF texts = <<>> THEN ""
    ELSE IF Len(texts) = 1 THEN texts[1]
    ELSE texts[1] \o "\n" \o Join(Tail(texts))

\* the text at position i of s is t
At(s, i, t) == i >= 1 /\ i + Len(t) - 1 <= Len(s) /\ SubSeq(s, i, i + Len(t) - 1) = t

\* first position at or after from where t occurs in s, 0 when there is none
IndexOf(s, t, from) ==
    LET hits == {i \in from..Len(s) : At(s, i, t)}
    IN  IF hits = {} THEN 0 ELSE CHOOSE i \in hits : \A j \in hits : i <= j

\* one regular expression of the table: /stem[^{]*\{/gi when toBrace, /stem/gi otherwise
ToBrace(stem) == [stem |-> stem, toBrace |-> TRUE]
Literal(stem) == [stem |-> stem, toBrace |-> FALSE]

\* componentPatterns
componentPatterns ==
    << [type |-> "button",
        patterns |-> <<ToBrace(".btn"), ToBrace(".button"), Literal("[class*=\"btn\"]")>>],
       [type |-> "card",
        patterns |-> <<ToBrace(".card"), Literal(".card-body"), Literal(".card-header")>>],
       [type |-> "nav",
        patterns |-> <<ToBrace(".nav"), ToBrace(".navbar"), ToBrace(".navigation")>>],
       [type |-> "hero",
        patterns |-> <<ToBrace(".hero"), Literal(".hero-section"), ToBrace(".banner")>>],
       [type |-> "form",
        patterns |-> <<ToBrace(".form"), Literal(".form-group"), Literal(".form-control")>>],
       [type |-> "input",
        patterns |-> <<ToBrace(".input"), Literal("input[type"), Literal(".text-field")>>],
       [type |-> "modal",
        patterns |-> <<ToBrace(".modal"), ToBrace(".dialog"), Literal("[role=\"dialog\"]")>>] >>

\* regex.exec(allCSS) with regex.lastIndex = from - 1
PatternExec(regex, allCSS, from) ==
    LET start == IndexOf(allCSS, regex.stem, from)
        brace == IF start = 0 THEN 0
                 ELSE IndexOf(allCSS, "{", start + Len(regex.stem))
    IN  IF start = 0 \/ (regex.toBrace /\ brace = 0)
        THEN [found |-> FALSE, text |-> "", next |-> 1]
        ELSE IF regex.toBrace
        THEN [found |-> TRUE, text |-> SubSeq(allCSS, start, brace), next |-> brace + 1]
        ELSE [found |-> TRUE, text |-> regex.stem, next |-> start + Len(regex.stem)]

WhiteSpace == {" ", "\n"}

\* String.prototype.trim
RECURSIVE Trim(_)
Trim(text) ==
    IF text = "" THEN text
    ELSE IF SubSeq(text, 1, 1) \in WhiteSpace THEN Trim(SubSeq(text, 2, Len(text)))
    ELSE IF SubSeq(text, Len(text), Len(text)) \in WhiteSpace
         THEN Trim(SubSeq(text, 1, Len(text) - 1))
    ELSE text

\* match[0].replace(/\{$/, '').trim()
ClassPatternOf(text) ==
    Trim(IF At(text, Len(text), "{") THEN SubSeq(text, 1, Len(text) - 1) ELSE text)

\* while ((match = regex.exec(allCSS)) !== null) classPatterns.push(...)
RECURSIVE PatternMatches(_, _, _, _)
PatternMatches(regex, allCSS, from, classPatterns) ==
    LET match == PatternExec(regex, allCSS, from)
    IN  IF ~match.found THEN classPatterns
        ELSE PatternMatches(regex, allCSS, match.next,
                            Append(classPatterns, ClassPatternOf(match.text)))

\* for (const regex of regexPatterns)
RECURSIVE TypeMatches(_, _, _)
TypeMatches(regexPatterns, allCSS, classPatterns) ==
    IF regexPatterns = <<>> THEN classPatterns
    ELSE TypeMatches(Tail(regexPatterns), allCSS,
                     PatternMatches(Head(regexPatterns), allCSS, 1, classPatterns))

\* the characters of [a-zA-Z0-9_-]
IdentChars ==
    {"a", "b", "c", "d", "e", "f", "g", "h", "i", "j", "k", "l", "m",
     "n", "o", "p", "q", "r", "s", "t", "u", "v", "w", "x", "y", "z",
     "A", "B", "C", "D", "E", "F", "G", "H", "I", "J", "K", "L", "M",
     "N", "O", "P", "Q", "R", "S", "T", "U", "V", "W", "X", "Y", "Z",
     "0", "1", "2", "3", "4", "5", "6", "7", "8", "9", "_", "-"}

\* text.split(/[^a-zA-Z0-9_-]/)[0]
RECURSIVE FirstPiece(_)
FirstPiece(text) ==
    IF text = "" \/ SubSeq(text, 1, 1) \notin IdentChars THEN ""
    ELSE SubSeq(text, 1, 1) \o FirstPiece(SubSeq(text, 2, Len(text)))

\* classPatterns[0].replace(/^\./, '').split(/[^a-zA-Z0-9_-]/)[0]
BaseClassOf(classPattern) ==
    FirstPiece(IF At(classPattern, 1, ".")
               THEN SubSeq(classPattern, 2, Len(classPattern)) ELSE classPattern)

\* new RegExp(`\\.${baseClass}[^{]*${pseudo}`, 'i').test(allCSS)
HasState(baseClass, pseudo, allCSS) ==
    \E i \in 1..Len(allCSS) :
        /\ At(allCSS, i, "." \o baseClass)
        /\ \E j \in (i + Len(baseClass) + 1)..Len(allCSS) :
              /\ At(allCSS, j, pseudo)
              /\ \A k \in (i + Len(baseClass) + 1)..(j - 1) : ~At(allCSS, k, "{")

\* [...new Set(classPatterns)]
RECURSIVE Distinct(_, _)
Distinct(classPatterns, seen) ==
    IF classPatterns = <<>> THEN seen
    ELSE Distinct(Tail(classPatterns), SetAdd(seen, Head(classPatterns)))

\* array.slice(0, n)
Slice(array, n) == SubSeq(array, 1, Min(n, Len(array)))

\* the body of the loop over componentPatterns, for one entry of the table
ComponentOf(entry, allCSS, startUrl, found) ==
    LET classPatterns == TypeMatches(entry.patterns, allCSS, <<>>)
        baseClass == BaseClassOf(classPatterns[1])
    IN  IF Len(classPatterns) > 0
        THEN Append(found,
                    [name |-> entry.type,
                     type |-> entry.type,
                     classPatterns |-> Slice(Distinct(classPatterns, <<>>), 5),
                     hasHoverState |-> HasState(baseClass, ":hover", allCSS),
                     hasFocusState |-> HasState(baseClass, ":focus", allCSS),
                     hasActiveState |-> HasState(baseClass, ":active", allCSS),
                     sourceUrl |-> startUrl,
                     sampleSnippet |-> classPatterns[1]])
        ELSE found

RECURSIVE ComponentScan(_, _, _, _)
ComponentScan(table, allCSS, startUrl, found) ==
    IF table = <<>> THEN found
    ELSE ComponentScan(Tail(table), allCSS, startUrl,
                       ComponentOf(Head(table), allCSS, startUrl, found))

detectComponentPatterns(cssValues, startUrl) ==
    ComponentScan(componentPatterns, Join(cssValues), startUrl, <<>>)

\* the rules a stylesheet of the model holds
SheetTexts ==
    {".card{}", ".card-body{}", ".card:hover{}", ".card-header:focus{}",
     ".card-body:active{}", "[class*=\"btn\"]{}"}

InitComponents ==
    /\ input = NoInput
    /\ pc = "Components"
    /\ CrawlIdle
    /\ RetryIdle
    /\ StackIdle
    /\ AnalysisIdle
    /\ TokensIdle
    /\ ProvenanceIdle
    /\ DedupIdle
    /\ LinksIdle
    /\ ColorsIdle
    /\ A11yIdle
    /\ sheets \in SeqsUpTo(SheetTexts, MaxSheets)
    /\ components = <<>>

DetectComponentPatterns ==
    /\ pc = "Components"
    /\ components' = detectComponentPatterns(sheets, Http("a.test", "", "", ""))
    /\ pc' = "ComponentsDone"
    /\ UNCHANGED sheets
    /\ UNCHANGED <<input, crawlLocals, retryVars, stackVars, dedupVars, linkVars, colorVars, a11yVars, provenanceVars, tokenVars, analysisVars>>

NextComponents == DetectComponentPatterns

SpecComponents == InitComponents /\ [][NextComponents]_vars

---------------------------------------------------------------------------
(* The fingerprints of STACK_DETECTORS as regular expressions over        *)
(* strings.  A regular expression is a sequence of elements; every        *)
(* fingerprint has the i flag, so its letters are written in lower case   *)
(* and so are the texts of the model.                                     *)

RxLit(text) == [kind |-> "lit", text |-> text]
RxAlt(texts) == [kind |-> "alt", texts |-> texts]
RxOpt(text) == [kind |-> "opt", text |-> text]
\* chars* or chars+ ; [^chars]* when negated
RxMany(chars, negated, min) == [kind |-> "many", chars |-> chars, negated |-> negated, min |-> min]
\* one character of a class
RxOne(chars) == [kind |-> "one", chars |-> chars]
\* \b
RxBoundary == [kind |-> "boundary"]

Digits == {"0", "1", "2", "3", "4", "5", "6", "7", "8", "9"}
Lower ==
    {"a", "b", "c", "d", "e", "f", "g", "h", "i", "j", "k", "l", "m",
     "n", "o", "p", "q", "r", "s", "t", "u", "v", "w", "x", "y", "z"}
Hex == {"a", "b", "c", "d", "e", "f"} \cup Digits
\* \w
WordChars == IdentChars \ {"-"}
\* \s
Space == {" ", "\n", "\t"}
Quote == {"\""}

CharAt(s, i) == IF i >= 1 /\ i <= Len(s) THEN SubSeq(s, i, i) ELSE ""

\* the elements k.. of regex match s from position i on
RECURSIVE MatchAt(_, _, _, _)
MatchAt(regex, k, s, i) ==
    IF k > Len(regex) THEN TRUE
    ELSE LET e == regex[k]
         IN  CASE e.kind = "lit" ->
                    At(s, i, e.text) /\ MatchAt(regex, k + 1, s, i + Len(e.text))
               [] e.kind = "alt" ->
                    \E t \in e.texts : At(s, i, t) /\ MatchAt(regex, k + 1, s, i + Len(t))
               [] e.kind = "opt" ->
                    \/ At(s, i, e.text) /\ MatchAt(regex, k + 1, s, i + Len(e.text))
                    \/ MatchAt(regex, k + 1, s, i)
               [] e.kind = "many" ->
                    \E n \in e.min..(Len(s) - i + 1) :
                        /\ \A j \in i..(i + n - 1) : (CharAt(s, j) \in e.chars) # e.negated
                        /\ MatchAt(regex, k + 1, s, i + n)
               [] e.kind = "one" ->
                    CharAt(s, i) \in e.chars /\ MatchAt(regex, k + 1, s, i + 1)
               [] e.kind = "boundary" ->
                    /\ (CharAt(s, i - 1) \in WordChars) # (CharAt(s, i) \in WordChars)
                    /\ MatchAt(regex, k + 1, s, i)

\* regex.test(s), for a regex without the g flag
RegexTest(regex, s) == \E i \in 1..(Len(s) + 1) : MatchAt(regex, 1, s, i)

\* /\bclass="[^"]*(?:...)[^"]*"/i
ClassWith(texts) ==
    <<RxBoundary, RxLit("class=\""), RxMany(Quote, TRUE, 0), RxAlt(texts),
      RxMany(Quote, TRUE, 0), RxLit("\"")>>

\* the regex of every pattern of STACK_DETECTORS, detector by detector
STACK_REGEXES ==
    << \* Next.js
       << <<RxLit("__next_data__")>>, <<RxLit("/_next/")>>, <<RxLit("next/head")>>,
          <<RxLit("data-nscript")>> >>,
       \* React
       << <<RxLit("data-reactroot")>>, <<RxLit("__react_devtools")>>,
          <<RxLit("react"), RxOpt(".min"), RxLit(".js")>>, <<RxLit("react-dom")>> >>,
       \* Vue.js
       << <<RxLit("data-v-"), RxMany(Hex, FALSE, 1)>>, <<RxLit("__vue__")>>,
          <<RxLit("vue"), RxOpt(".min"), RxLit(".js")>> >>,
       \* Nuxt
       << <<RxLit("__nuxt__")>>, <<RxLit("/_nuxt/")>> >>,
       \* Svelte
       << <<RxLit("svelte-"), RxMany(Lower \cup Digits, FALSE, 1)>>, <<RxLit("__svelte")>> >>,
       \* Tailwind CSS
       << <<RxLit("tailwindcss")>>,
          <<RxLit("--tw-"), RxMany(Lower \cup {"-"}, FALSE, 1)>>,
          ClassWith({"bg-", "text-", "flex", "grid", "p-", "m-", "w-", "h-"}),
          <<RxBoundary, RxAlt({"sm:", "md:", "lg:", "xl:", "2xl:"}), RxOne(Lower)>> >>,
       \* shadcn/ui
       << <<RxLit("@radix-ui")>>,
          <<RxBoundary, RxLit("cn"), RxMany(Space, FALSE, 0), RxLit("(")>>,
          <<RxLit("data-[state=")>>, <<RxLit("class-variance-authority")>> >>,
       \* Bootstrap
       << <<RxLit("bootstrap"), RxOpt(".min"), RxLit(".css")>>,
          ClassWith({"container", "row", "col-"}),
          <<RxBoundary, RxLit("btn-"),
            RxAlt({"primary", "secondary", "success", "danger"})>> >>,
       \* Material UI
       << <<RxLit("@mui/")>>, <<RxAlt({"muibutton", "muicard", "muitypography"})>>,
          <<RxLit("__emotion")>> >>,
       \* Chakra UI
       << <<RxLit("@chakra-ui")>>, <<RxLit("chakra-")>> >>,
       \* Vite
       << <<RxLit("@vite")>>, <<RxLit("vite.config")>> >>,
       \* Webpack
       << <<RxLit("webpackjsonp")>>, <<RxLit("__webpack_require__")>> >> >>

\* pattern.regex.test(text) for pattern i of detector d
FingerprintTest(fingerprint, text) ==
    RegexTest(STACK_REGEXES[fingerprint[1]][fingerprint[2]], text)

---------------------------------------------------------------------------
(* extract: the facts of the ExtractionResult with their source URLs.     *)
(* A session is [startUrl, pages, cssContents]; a page is [finalUrl,      *)
(* fullHtml]; cssContents is the Map as the sequence of its [url, css]    *)
(* entries; contents are strings.                                         *)

\* [...session.pages.map(p => p.fullHtml), ...session.cssContents.values()]
ContentsOf(sess) ==
    [i \in 1..Len(sess.pages) |-> sess.pages[i].fullHtml]
        \o [i \in 1..Len(sess.cssContents) |-> sess.cssContents[i].css]

\* the fingerprints whose regex matches allContent
MatchedIn(allContent) == {f \in Fingerprints : FingerprintTest(f, allContent)}

\* sourceUrls of a detector: for each of its patterns that matches allContent,
\* the pages and the stylesheets that match it on their own
SourceUrlsOf(d, sess, matched) ==
    {sess.pages[p].finalUrl :
        p \in {q \in 1..Len(sess.pages) :
                 \E f \in matched : f[1] = d /\ FingerprintTest(f, sess.pages[q].fullHtml)}}
    \cup
    {sess.cssContents[c].url :
        c \in {q \in 1..Len(sess.cssContents) :
                 \E f \in matched : f[1] = d /\ FingerprintTest(f, sess.cssContents[q].css)}}

DetectorOf(name) ==
    CHOOSE d \in 1..Len(STACK_DETECTORS) : STACK_DETECTORS[d].name = name

\* detectStack(session), each signal with its sourceUrls
StackFacts(sess) ==
    LET matched == MatchedIn(Join(ContentsOf(sess)))
        sorted == detectStack(matched)
    IN  [i \in 1..Len(sorted) |->
            [kind |-> "stackSignal", what |-> sorted[i].name,
             sourceUrls |-> SourceUrlsOf(DetectorOf(sorted[i].name), sess, matched)]]

\* first position at or after i whose character is outside the run
RECURSIVE RunEnd(_, _, _, _)
RunEnd(s, i, chars, negated) ==
    IF i > Len(s) \/ ((CharAt(s, i) \in chars) = negated) THEN i
    ELSE RunEnd(s, i + 1, chars, negated)

\* CSS_VAR_REGEX at position i: --([a-zA-Z0-9_-]+)\s*:\s*([^;}\n]+), for a
\* declaration whose value is not blank
VarMatchAt(css, i) ==
    LET nameEnd == RunEnd(css, i + 2, IdentChars, FALSE)
        colon == RunEnd(css, nameEnd, Space, FALSE)
        valueStart == RunEnd(css, colon + 1, Space, FALSE)
        valueEnd == RunEnd(css, valueStart, {";", "}", "\n"}, TRUE)
    IN  IF At(css, i, "--") /\ nameEnd > i + 2 /\ CharAt(css, colon) = ":"
           /\ valueEnd > valueStart
        THEN [found |-> TRUE, name |-> SubSeq(css, i + 2, nameEnd - 1),
              value |-> SubSeq(css, valueStart, valueEnd - 1), next |-> valueEnd]
        ELSE [found |-> FALSE, name |-> "", value |-> "", next |-> 1]

\* while ((match = CSS_VAR_REGEX.exec(css)) !== null) variables.push(...)
RECURSIVE VarScan(_, _, _, _)
VarScan(css, from, sourceUrl, variables) ==
    LET starts == {i \in from..Len(css) : VarMatchAt(css, i).found}
    IN  IF starts = {} THEN variables
        ELSE LET first == CHOOSE i \in starts : \A j \in starts : i <= j
                 match == VarMatchAt(css, first)
             IN  VarScan(css, match.next, sourceUrl,
                         Append(variables,
                                [value |-> "--" \o match.name \o ": " \o Trim(match.value),
                                 sourceUrl |-> sourceUrl]))

\* CSS_VAR_REGEX.lastIndex = 0, then the loop
extractCSSVariables(css, sourceUrl) == VarScan(css, 1, sourceUrl, <<>>)

\* page.fullHtml.match(/<style[^>]*>([\s\S]*?)<\/style>/gi), each match with
\* its tags removed
RECURSIVE StyleBlocks(_, _)
StyleBlocks(html, from) ==
    LET open == IndexOf(html, "<style", from)
        close == IF open = 0 THEN 0 ELSE IndexOf(html, ">", open + Len("<style"))
        end == IF close = 0 THEN 0 ELSE IndexOf(html, "</style>", close + 1)
    IN  IF end = 0 THEN <<>>
        ELSE <<SubSeq(html, close + 1, end - 1)>> \o StyleBlocks(html, end + Len("</style>"))

\* the units extract hands to the token extractors, in order: the style
\* blocks of each page with page.finalUrl, then each stylesheet with its url
RECURSIVE InlineUnits(_)
InlineUnits(sessionPages) ==
    IF sessionPages = <<>> THEN <<>>
    ELSE LET blocks == StyleBlocks(Head(sessionPages).fullHtml, 1)
         IN  [i \in 1..Len(blocks) |->
                 [css |-> blocks[i], sourceUrl |-> Head(sessionPages).finalUrl]]
             \o InlineUnits(Tail(sessionPages))

UnitsOf(sess) ==
    InlineUnits(sess.pages)
        \o [i \in 1..Len(sess.cssContents) |->
               [css |-> sess.cssContents[i].css, sourceUrl |-> sess.cssContents[i].url]]

\* allCustomProperties.push(...extractCSSVariables(css, url)) over the units
RECURSIVE AllCustomProperties(_)
AllCustomProperties(units) ==
    IF units = <<>> THEN <<>>
    ELSE extractCSSVariables(Head(units).css, Head(units).sourceUrl)
            \o AllCustomProperties(Tail(units))

\* deduplicateByValue(allCustomProperties, (p) => p.value)
CustomPropertyFacts(sess) ==
    LET all == AllCustomProperties(UnitsOf(sess))
        uniqueProps == deduplicateByValue(all, [p \in Range(all) |-> p.value])
    IN  [i \in 1..Len(uniqueProps) |->
            [kind |-> "customProperty", what |-> uniqueProps[i].value,
             sourceUrls |-> {uniqueProps[i].sourceUrl}]]

\* detectComponentPatterns(session)
ComponentFacts(sess) ==
    LET found == detectComponentPatterns(
                     [i \in 1..Len(sess.cssContents) |-> sess.cssContents[i].css],
                     sess.startUrl)
    IN  [i \in 1..Len(found) |->
            [kind |-> "componentPattern", what |-> found[i].type,
             sourceUrls |-> {found[i].sourceUrl}]]

\* the features detectAccessibilitySignals pushes a signal for, whatever the content
A11yFeatures ==
    <<"Skip Links", "Focus Visible Styling", "ARIA Attributes", "Image Alt Text",
      "Semantic HTML">>

AccessibilityFacts(sess) ==
    [i \in 1..Len(A11yFeatures) |->
        [kind |-> "accessibilitySignal", what |-> A11yFeatures[i],
         sourceUrls |-> {sess.startUrl}]]

\* mediaQueryRegex: /@media[^{]*\(\s*(?:min|max)-width\s*:\s*([^)]+)\)/gi
mediaQueryRegex ==
    <<RxLit("@media"), RxMany({"{"}, TRUE, 0), RxLit("("), RxMany(Space, FALSE, 0),
      RxAlt({"min", "max"}), RxLit("-width"), RxMany(Space, FALSE, 0), RxLit(":"),
      RxMany(Space, FALSE, 0), RxMany({")"}, TRUE, 1), RxLit(")")>>

\* extractLayoutInfo: a breakpoint is recorded when a media query is found
LayoutFacts(sess) ==
    IF RegexTest(mediaQueryRegex,
                 Join([i \in 1..Len(sess.cssContents) |-> sess.cssContents[i].css]))
    THEN <<[kind |-> "layoutValue", what |-> "breakpoint", sourceUrls |-> {sess.startUrl}]>>
    ELSE <<>>

extract(sess) ==
    StackFacts(sess) \o CustomPropertyFacts(sess) \o ComponentFacts(sess)
        \o AccessibilityFacts(sess) \o LayoutFacts(sess)

SeedUrl == Http("a.test", "/", "", "")
PageUrls == {SeedUrl, Http("a.test", "/p", "", "")}
PageTexts ==
    {"<p>cn", "<style>:root{--gap: 4px}</style>", "<div class=\"row\">react-dom</div>"}
SheetUrls == {Http("a.test", "/s.css", "", "")}
SheetContents == {"(x){}", ".card:hover{--gap: 4px}", "@media (min-width: 640px){.btn{}}"}

SessionPages == SeqsUpTo([finalUrl : PageUrls, fullHtml : PageTexts], MaxSessionPages)
SessionSheets == {<<>>} \cup {<<e>> : e \in [url : SheetUrls, css : SheetContents]}

InitProvenance ==
    /\ input = NoInput
    /\ pc = "Extracting"
    /\ CrawlIdle
    /\ RetryIdle
    /\ StackIdle
    /\ AnalysisIdle
    /\ TokensIdle
    /\ DedupIdle
    /\ LinksIdle
    /\ ColorsIdle
    /\ A11yIdle
    /\ ComponentsIdle
    /\ session \in [startUrl : {SeedUrl}, pages : SessionPages, cssContents : SessionSheets]
    /\ extraction = <<>>

Extract ==
    /\ pc = "Extracting"
    /\ extraction' = extract(session)
    /\ pc' = "ExtractionDone"
    /\ UNCHANGED session
    /\ UNCHANGED <<input, crawlLocals, retryVars, stackVars, dedupVars, linkVars, colorVars, a11yVars, componentVars, tokenVars, analysisVars>>

NextProvenance == Extract

SpecProvenance == InitProvenance /\ [][NextProvenance]_vars


(***************************************************************************)
(* Radius and shadow tokens                                                *)
(***************************************************************************)

\* a property regex at position i: property\s*:\s*([^;}\n]+), for a declaration
\* whose value is not blank (BORDER_RADIUS_REGEX, BOX_SHADOW_REGEX)
DeclMatchAt(css, i, property) ==
    LET colon == RunEnd(css, i + Len(property), Space, FALSE)
        valueStart == RunEnd(css, colon + 1, Space, FALSE)
        valueEnd == RunEnd(css, valueStart, {";", "}", "\n"}, TRUE)
    IN  IF At(css, i, property) /\ CharAt(css, colon) = ":" /\ valueEnd > valueStart
        THEN [found |-> TRUE, value |-> SubSeq(css, valueStart, valueEnd - 1), next |-> valueEnd]
        ELSE [found |-> FALSE, value |-> "", next |-> 1]

\* the matches of one while ((match = REGEX.exec(css)) !== null) loop, in order
RECURSIVE DeclMatches(_, _, _)
DeclMatches(css, from, property) ==
    LET starts == {i \in from..Len(css) : DeclMatchAt(css, i, property).found}
    IN  IF starts = {} THEN <<>>
        ELSE LET first == CHOOSE i \in starts : \A j \in starts : i <= j
                 match == DeclMatchAt(css, first, property)
             IN  <<match.value>> \o DeclMatches(css, match.next, property)

\* the matches of the CSS_VAR_REGEX loop, in order: [name, value]
RECURSIVE VarMatches(_, _)
VarMatches(css, from) ==
    LET starts == {i \in from..Len(css) : VarMatchAt(css, i).found}
    IN  IF starts = {} THEN <<>>
        ELSE LET first == CHOOSE i \in starts : \A j \in starts : i <= j
                 match == VarMatchAt(css, first)
             IN  <<[name |-> match.name, value |-> match.value]>>
                     \o VarMatches(css, match.next)

\* Map.has(key) on a map kept as the sequence of its entries, in insertion order
HasKey(map, key) == \E i \in 1..Len(map) : map[i].key = key

\* value.startsWith('var(')
StartsWithVar(value) == At(value, 1, "var(")

\* the custom-property loop of extractRadii and extractShadows: a variable
\* whose name holds the word is set under `--${name}` unless that key is set
RECURSIVE TokensFromVars(_, _, _, _)
TokensFromVars(matches, word, sourceUrl, map) ==
    IF matches = <<>> THEN map
    ELSE LET key == "--" \o Head(matches).name
         IN  TokensFromVars(Tail(matches), word, sourceUrl,
                 IF IndexOf(Head(matches).name, word, 1) > 0 /\ ~HasKey(map, key)
                 THEN Append(map, [key |-> key, name |-> key,
                                   value |-> Trim(Head(matches).value),
                                   sourceUrl |-> sourceUrl])
                 ELSE map)

\* the direct-declaration loop: the trimmed value is the key; skipped holds
\* the values that never make a token ('none' for box-shadow)
RECURSIVE TokensFromDecls(_, _, _, _, _)
TokensFromDecls(values, property, skipped, sourceUrl, map) ==
    IF values = <<>> THEN map
    ELSE LET value == Trim(Head(values))
         IN  TokensFromDecls(Tail(values), property, skipped, sourceUrl,
                 IF value \notin skipped /\ ~StartsWithVar(value) /\ ~HasKey(map, value)
                 THEN Append(map, [key |-> value, name |-> property, value |-> value,
                                   sourceUrl |-> sourceUrl])
                 ELSE map)

\* Array.from(map.values())
MapValues(map) ==
    [i \in 1..Len(map) |->
        [name |-> map[i].name, value |-> map[i].value, sourceUrl |-> map[i].sourceUrl]]

\* the Map of extractRadii when it returns
RadiiMap(css, sourceUrl) ==
    TokensFromDecls(DeclMatches(css, 1, "border-radius"), "border-radius", {}, sourceUrl,
                    TokensFromVars(VarMatches(css, 1), "radius", sourceUrl, <<>>))

\* the Map of extractShadows when it returns
ShadowsMap(css, sourceUrl) ==
    TokensFromDecls(DeclMatches(css, 1, "box-shadow"), "box-shadow", {"none"}, sourceUrl,
                    TokensFromVars(VarMatches(css, 1), "shadow", sourceUrl, <<>>))

extractRadii(css, sourceUrl) == MapValues(RadiiMap(css, sourceUrl))

extractShadows(css, sourceUrl) == MapValues(ShadowsMap(css, sourceUrl))

\* allRadii.push(...extractRadii(css, url)) over the units
RECURSIVE AllRadii(_)
AllRadii(units) ==
    IF units = <<>> THEN <<>>
    ELSE extractRadii(Head(units).css, Head(units).sourceUrl) \o AllRadii(Tail(units))

\* allShadows.push(...extractShadows(css, url)) over the units
RECURSIVE AllShadows(_)
AllShadows(units) ==
    IF units = <<>> THEN <<>>
    ELSE extractShadows(Head(units).css, Head(units).sourceUrl) \o AllShadows(Tail(units))

\* (r) => r.value, (s) => s.value
ByValue(tokens) == [t \in Range(tokens) |-> t.value]

\* const uniqueRadii = deduplicateByValue(allRadii, (r) => r.value)
UniqueRadii(units) == deduplicateByValue(AllRadii(units), ByValue(AllRadii(units)))

\* const uniqueShadows = deduplicateByValue(allShadows, (s) => s.value)
UniqueShadows(units) == deduplicateByValue(AllShadows(units), ByValue(AllShadows(units)))

\* the rules the stylesheets are made of: direct declarations that share a
\* literal, a var() reference, a shadow of none, and custom properties with
\* different names and one value
TokenRules ==
    {".a{border-radius: 4px}",
     ".b{border-radius: 4px;box-shadow: none}",
     ".c{border-radius: var(--radius-sm);box-shadow: 0 1px 2px #000}",
     ":root{--radius-sm: 4px;--shadow-sm: 0 1px 2px #000}",
     ":root{--radius-md: 4px;--shadow-md: 0 1px 2px #000}"}

\* one or two stylesheets: the rules, cut at some rule into two files
StyleUnitsOf(rules, cut) ==
    SelectSeq(<<[css |-> Join(SubSeq(rules, 1, cut)), sourceUrl |-> "https://a.test/a.css"],
                [css |-> Join(SubSeq(rules, cut + 1, Len(rules))),
                 sourceUrl |-> "https://a.test/b.css"]>>,
              LAMBDA unit : unit.css # "")

InitTokens ==
    /\ input = NoInput
    /\ pc = "Tokens"
    /\ CrawlIdle
    /\ RetryIdle
    /\ StackIdle
    /\ AnalysisIdle
    /\ ProvenanceIdle
    /\ ComponentsIdle
    /\ A11yIdle
    /\ ColorsIdle
    /\ DedupIdle
    /\ LinksIdle
    /\ \E rules \in SeqsUpTo(TokenRules, MaxTokenRules) : \E cut \in 0..Len(rules) :
           styleUnits = StyleUnitsOf(rules, cut)
    /\ radiusTokens = <<>>
    /\ shadowTokens = <<>>

\* extract, the radius and shadow tokens: every unit's tokens, then the
\* deduplication by value
ExtractTokens ==
    /\ pc = "Tokens"
    /\ pc' = "TokensDone"
    /\ radiusTokens' = UniqueRadii(styleUnits)
    /\ shadowTokens' = UniqueShadows(styleUnits)
    /\ UNCHANGED styleUnits
    /\ UNCHANGED <<input, crawlLocals, retryVars, stackVars, dedupVars, linkVars, colorVars, a11yVars, componentVars, provenanceVars, analysisVars>>

NextTokens == ExtractTokens

SpecTokens == InitTokens /\ [][NextTokens]_vars


(***************************************************************************)
(* checkRobotsTxt on its own                                               *)
(***************************************************************************)

\* the lines a robots.txt is made of: agents that match and one that does
\* not, root paths and another path, and a line of another field
RobotsLines ==
    {UserAgent("*"), UserAgent("GoogleBot"), UserAgent("curl"),
     Disallow("/"), Disallow("/*"), Disallow("/private"), OtherLine}

RobotsTexts == {RobotsText(lines) : lines \in SeqsUpTo(RobotsLines, MaxRobotsLines)}

InitRobots ==
    /\ input = NoInput
    /\ pc = "Robots"
    /\ config = NoConfig
    /\ robotsTxt \in RobotsTexts \cup {RobotsThrows, RobotsNotOk}
    /\ robotsCheck = [allowed |-> TRUE, warning |-> <<>>]
    /\ visited = {}
    /\ queue = <<>>
    /\ pages = <<>>
    /\ allCssLinks = <<>>
    /\ cssTodo = <<>>
    /\ cssContents = <<>>
    /\ totalRequests = 0
    /\ failedRequests = 0
    /\ netUsed = FALSE
    /\ fetchLog = <<>>
    /\ timeline = <<>>
    /\ RetryIdle
    /\ StackIdle
    /\ ExtractIdle

\* one call of checkRobotsTxt on a site whose robots.txt request ends as robotsTxt
CheckRobotsTxt ==
    /\ pc = "Robots"
    /\ pc' = "RobotsDone"
    /\ robotsCheck' = checkRobotsTxt(Http("a.test", "/", "", ""), robotsTxt)
    /\ UNCHANGED <<input, config, robotsTxt, visited, queue, pages, allCssLinks, cssTodo,
                   cssContents, totalRequests, failedRequests, netUsed, fetchLog, timeline>>
    /\ UNCHANGED <<retryVars, stackVars, extractVars>>

NextRobots == CheckRobotsTxt

SpecRobots == InitRobots /\ [][NextRobots]_vars


(***************************************************************************)
(* extractLayoutInfo and the detectors that read the fetched stylesheets   *)
(***************************************************************************)

\* largest member of a non-empty set of positions
Last(positions) == CHOOSE p \in positions : \A q \in positions : q <= p

\* containerRegex at position i: \.container[^{]*\{[^}]*max-width\s*:\s*([^;]+);
\* the greedy [^}]* stops at the last max-width of the block
ContainerMatchAt(css, i) ==
    LET brace == RunEnd(css, i + Len(".container"), {"{"}, TRUE)
        blockEnd == RunEnd(css, brace + 1, {"}"}, TRUE)
        ValueStart(p) ==
            RunEnd(css, RunEnd(css, p + Len("max-width"), Space, FALSE) + 1, Space, FALSE)
        declared == {p \in (brace + 1)..blockEnd :
                        /\ At(css, p, "max-width")
                        /\ CharAt(css, RunEnd(css, p + Len("max-width"), Space, FALSE)) = ":"
                        /\ RunEnd(css, ValueStart(p), {";"}, TRUE) > ValueStart(p)}
    IN  IF At(css, i, ".container") /\ CharAt(css, brace) = "{" /\ declared # {}
        THEN [found |-> TRUE,
              value |-> SubSeq(css, ValueStart(Last(declared)),
                               RunEnd(css, ValueStart(Last(declared)), {";"}, TRUE) - 1),
              next |-> RunEnd(css, ValueStart(Last(declared)), {";"}, TRUE)]
        ELSE [found |-> FALSE, value |-> "", next |-> 1]

\* while ((match = containerRegex.exec(allCSS)) !== null) containerWidths.push(...)
RECURSIVE ContainerScan(_, _)
ContainerScan(css, from) ==
    LET starts == {i \in from..Len(css) : ContainerMatchAt(css, i).found}
    IN  IF starts = {} THEN <<>>
        ELSE LET match == ContainerMatchAt(css, CHOOSE i \in starts : \A j \in starts : i <= j)
             IN  <<Trim(match.value)>> \o ContainerScan(css, match.next)

\* mediaQueryRegex at position i, with its capture: the greedy [^{]* stops at
\* the last parenthesis of the query that opens a width condition
MediaMatchAt(css, i) ==
    LET queryEnd == RunEnd(css, i + Len("@media"), {"{"}, TRUE)
        Feature(p) == RunEnd(css, p + 1, Space, FALSE)
        Colon(p) == RunEnd(css, Feature(p) + Len("min-width"), Space, FALSE)
        ValueStart(p) == RunEnd(css, Colon(p) + 1, Space, FALSE)
        ValueEnd(p) == RunEnd(css, ValueStart(p), {")"}, TRUE)
        conditions == {p \in (i + Len("@media"))..queryEnd :
                          /\ CharAt(css, p) = "("
                          /\ (At(css, Feature(p), "min-width") \/ At(css, Feature(p), "max-width"))
                          /\ CharAt(css, Colon(p)) = ":"
                          /\ ValueEnd(p) > ValueStart(p)
                          /\ CharAt(css, ValueEnd(p)) = ")"}
    IN  IF At(css, i, "@media") /\ conditions # {}
        THEN [found |-> TRUE,
              value |-> SubSeq(css, ValueStart(Last(conditions)), ValueEnd(Last(conditions)) - 1),
              next |-> ValueEnd(Last(conditions)) + 1]
        ELSE [found |-> FALSE, value |-> "", next |-> 1]

\* the breakpoint loop: if (!seenBreakpoints.has(bp)) { add; push }
RECURSIVE BreakpointScan(_, _, _)
BreakpointScan(css, from, breakpoints) ==
    LET starts == {i \in from..Len(css) : MediaMatchAt(css, i).found}
    IN  IF starts = {} THEN breakpoints
        ELSE LET match == MediaMatchAt(css, CHOOSE i \in starts : \A j \in starts : i <= j)
             IN  BreakpointScan(css, match.next, SetAdd(breakpoints, Trim(match.value)))

\* /display\s*:\s*grid/i
displayGridRegex ==
    <<RxLit("display"), RxMany(Space, FALSE, 0), RxLit(":"), RxMany(Space, FALSE, 0),
      RxLit("grid")>>

\* /display\s*:\s*flex/i
displayFlexRegex ==
    <<RxLit("display"), RxMany(Space, FALSE, 0), RxLit(":"), RxMany(Space, FALSE, 0),
      RxLit("flex")>>

\* /\.col-(?:xs|sm|md|lg|xl)-\d+/i
bootstrapColumnRegex ==
    <<RxLit(".col-"), RxAlt({"xs", "sm", "md", "lg", "xl"}), RxLit("-"),
      RxMany(Digits, FALSE, 1)>>

\* if (/display\s*:\s*flex/i.test(allCSS)) gridSystem = 'flexbox', whatever it was
FlexOverrides(gridSystem) == "flexbox"

\* if (gridSystem === 'unknown') gridSystem = 'flexbox'
FlexIfUnknown(gridSystem) == IF gridSystem = "unknown" THEN "flexbox" ELSE gridSystem

\* the three checks of the grid system detection, in order
GridDetection(allCSS) ==
    LET afterGrid == IF RegexTest(displayGridRegex, allCSS)
                     THEN [gridSystem |-> "css-grid", gridEvidence |-> <<"CSS Grid (display: grid)">>]
                     ELSE [gridSystem |-> "unknown", gridEvidence |-> <<>>]
        afterFlex == IF RegexTest(displayFlexRegex, allCSS)
                     THEN [gridSystem |-> FlexIfUnknown(afterGrid.gridSystem),
                           gridEvidence |-> Append(afterGrid.gridEvidence, "Flexbox (display: flex)")]
                     ELSE afterGrid
    IN  IF RegexTest(bootstrapColumnRegex, allCSS)
        THEN [gridSystem |-> "bootstrap-grid",
              gridEvidence |-> Append(afterFlex.gridEvidence, "Bootstrap grid classes")]
        ELSE afterFlex

\* the css of the style blocks of the pages joined before that of the stylesheets
AllCssWithInline(sess) == Join([i \in 1..Len(UnitsOf(sess)) |-> UnitsOf(sess)[i].css])

\* Array.from(session.cssContents.values()).join('\n')
AllCssOf(sess) == Join([i \in 1..Len(sess.cssContents) |-> sess.cssContents[i].css])

extractLayoutInfo(sess) ==
    [containerWidths |-> ContainerScan(AllCssOf(sess), 1),
     breakpoints |-> BreakpointScan(AllCssOf(sess), 1, <<>>),
     gridSystem |-> GridDetection(AllCssOf(sess)).gridSystem,
     gridEvidence |-> GridDetection(AllCssOf(sess)).gridEvidence]


\* /:focus-visible/i
focusVisibleRegex == <<RxLit(":focus-visible")>>

\* /:focus[^}]*outline/i
focusOutlineRegex == <<RxLit(":focus"), RxMany({"}"}, TRUE, 0), RxLit("outline")>>

\* the 'Focus Visible Styling' signal of detectAccessibilitySignals
FocusVisibleSignal(sess) ==
    LET hasFocusVisible == RegexTest(focusVisibleRegex, AllCssOf(sess))
        hasFocusOutline == RegexTest(focusOutlineRegex, AllCssOf(sess))
    IN  [feature |-> "Focus Visible Styling",
         present |-> hasFocusVisible \/ hasFocusOutline,
         details |-> IF hasFocusVisible THEN "Uses :focus-visible pseudo-class"
                     ELSE IF hasFocusOutline THEN "Custom focus outline styling"
                     ELSE "undefined"]

\* what extract reports of a session, for the parts that read css: the custom
\* properties and radius tokens of the style blocks and stylesheets, and the
\* results of the detectors that read the stylesheet map only
AnalysisOf(sess) ==
    [customProperties |-> [i \in 1..Len(CustomPropertyFacts(sess)) |->
                              CustomPropertyFacts(sess)[i].what],
     radii |-> UniqueRadii(UnitsOf(sess)),
     componentPatterns |-> detectComponentPatterns(
                               [i \in 1..Len(sess.cssContents) |-> sess.cssContents[i].css],
                               sess.startUrl),
     focusVisible |-> FocusVisibleSignal(sess),
     layout |-> extractLayoutInfo(sess)]

\* stylesheets: one per thing the detectors look for
LayoutSheetTexts ==
    {".g{display: grid}", ".f{display:flex}", ".col-md-6{width: 50%}",
     ".container{max-width: 1140px;}", "@media (min-width: 640px){.btn:hover{color: red}}",
     ".btn:focus-visible{outline: 2px solid}"}

\* pages: one without a style block, one whose style block holds all of it
StyledPage ==
    "<style>:root{--radius-sm: 4px}.card{display: grid}.col-md-6{display: flex}"
        \o ".container{max-width: 960px;}.btn:focus-visible{outline: none}"
        \o "@media (max-width: 480px){.btn{color: red}}</style>"

LayoutPageTexts == {"<p>x</p>", StyledPage}

\* the stylesheet map of a session: urls in the order of the fetches
SheetMap(texts) ==
    [i \in 1..Len(texts) |->
        [url |-> Http("a.test", <<"/s", i, ".css">>, "", ""), css |-> texts[i]]]

InitLayout ==
    /\ input = NoInput
    /\ pc = "Analysing"
    /\ CrawlIdle
    /\ RetryIdle
    /\ StackIdle
    /\ TokensIdle
    /\ DedupIdle
    /\ LinksIdle
    /\ ColorsIdle
    /\ A11yIdle
    /\ ComponentsIdle
    /\ \E html \in LayoutPageTexts : \E texts \in SeqsUpTo(LayoutSheetTexts, MaxLayoutSheets) :
           session = [startUrl |-> SeedUrl,
                      pages |-> <<[finalUrl |-> SeedUrl, fullHtml |-> html]>>,
                      cssContents |-> SheetMap(texts)]
    /\ extraction = <<>>
    /\ analysis = <<>>

\* extract(session), the parts that read css
Analyse ==
    /\ pc = "Analysing"
    /\ analysis' = AnalysisOf(session)
    /\ pc' = "Analysed"
    /\ UNCHANGED <<session, extraction>>
    /\ UNCHANGED <<input, crawlLocals, retryVars, stackVars, dedupVars, linkVars, colorVars, a11yVars, componentVars, tokenVars>>

NextLayout == Analyse

SpecLayout == InitLayout /\ [][NextLayout]_vars

---------------------------------------------------------------------------
(* Properties of the crawl (Spec, FairSpec)                               *)

Crawling == pc \in {"Draining", "AssetFetch", "Done"}

\* C1: in every state of the crawl loop and in the returned session, the
\* number of CrawledPage entries is at most the configured maxPages.
C1_PagesAtMostMaxPages ==
    (Crawling /\ ~config.maxPages.nan) => 2 * Len(pages) <= config.maxPages.halves

\* C2: no two CrawledPage entries share a normalized URL, urls that differ
\* only by query string or fragment counting as the same URL.
C2_NoPageTwice ==
    \A i, j \in 1..Len(pages) :
        i # j => StripQueryHash(pages[i].url) # StripQueryHash(pages[j].url)

\* C3: in a crawl run with sameOriginOnly set, every CrawledPage's final URL
\* has the origin of the seed URL.
C3_FinalUrlSameOrigin ==
    (Crawling /\ config.sameOriginOnly) =>
        \A i \in 1..Len(pages) : isSameOrigin(pages[i].finalUrl, config.themeUrl)

RobotsDisallowsAll == robotsTxt = RobotsText(<<UserAgent("*"), Disallow("/")>>)

\* C4: when robots.txt holds a `User-agent: *` block with `Disallow: /`, the
\* returned session has status "blocked", carries a warning, and its first
\* page is the fetched seed.
C4_BlockedStillFetchesSeed ==
    (pc = "Done" /\ RobotsDisallowsAll) =>
        /\ robotsTxtStatus = "blocked"
        /\ robotsCheck.warning # <<>>
        /\ Len(pages) >= 1
        /\ pages[1].url = normalizeUrl(config.themeUrl, Null)
        /\ fetchLog # <<>>

FailedPages == {i \in 1..Len(pages) : pages[i].error # ""}

PagesFollowFetches ==
    /\ Len(pages) = Len(fetchLog)
    /\ \A i \in 1..Len(pages) : pages[i].url = fetchLog[i]
    /\ \A i, j \in 1..Len(fetchLog) : i # j => fetchLog[i] # fetchLog[j]

FailuresRecorded ==
    /\ \A i \in 1..Len(pages) :
          ~(pages[i].status >= 200 /\ pages[i].status <= 299) => i \in FailedPages
    /\ pc = "Draining" =>
          /\ totalRequests = Len(pages)
          /\ failedRequests = Cardinality(FailedPages)
    /\ failedRequests >= Cardinality(FailedPages)

CrawlGoesOn ==
    Len(pages') > Len(pages) =>
        /\ pc' = "Draining"
        /\ SubSeq(pages', 1, Len(pages)) = pages
        /\ Len(pages') = Len(pages) + 1
        /\ Len(pages') \in FailedPages' => queue' = Tail(queue)

\* C7: every fetched URL yields exactly one CrawledPage, in fetch order; a
\* failed fetch is recorded with an error string and counted as a failure,
\* and the crawl goes on with the rest of the frontier.
C7_FailuresRecordedNotDropped ==
    /\ [](PagesFollowFetches /\ FailuresRecorded)
    /\ [][CrawlGoesOn]_vars

\* a session in which a failed page is followed by a fetched one
C7_Witness ==
    /\ pc = "Done"
    /\ \E i \in 1..(Len(pages) - 1) : i \in FailedPages /\ (i + 1) \notin FailedPages

\* C8: every crawl that starts eventually reaches Done.
C8_CrawlTerminates == (pc = "RobotsCheck") ~> (pc = "Done")

\* a crawl cut short by maxPages with the frontier not yet empty
C8_Witness ==
    /\ pc = "Done"
    /\ queue # <<>>
    /\ ~config.maxPages.nan
    /\ 2 * Len(pages) = config.maxPages.halves

IsInteger(v) == v.t = "number" /\ ~v.nan /\ v.halves % 2 = 0

SeedAcceptable ==
    input.themeUrl.kind = "abs" /\ input.themeUrl.scheme \in {"http:", "https:"}

MaxPagesAcceptable ==
    \/ input.maxPages = Undefined
    \/ /\ IsInteger(input.maxPages)
       /\ 2 * MinMaxPages <= input.maxPages.halves
       /\ input.maxPages.halves <= 2 * MaxMaxPages

\* C9: runExtractor fails, with no network request made, whenever the seed is
\* missing, unparseable or not http(s), or maxPages is supplied and is not an
\* integer in 1..20; a crawl starts only with an acceptable configuration.
C9_InvalidInputFailsFirst ==
    /\ (pc # "Idle" /\ ~(SeedAcceptable /\ MaxPagesAcceptable)) =>
           (pc = "Failed" /\ ~netUsed)
    /\ pc = "Failed" => ~netUsed

---------------------------------------------------------------------------
(* Properties of fetchWithRetry (SpecRetry)                               *)

Returned == pc = "Retry" /\ rpc \in {"returned", "thrown"}

Calls == SelectSeq(events, LAMBDA e : e.e = "call")

\* the 0-indexed number of the attempt whose call is event i
AttemptOf(i) == Cardinality({j \in 1..(i - 1) : events[j].e = "call"})

Retryable(status) == status = 0 \/ status = 429 \/ status >= 500

\* C5: at most maxRetries calls are made; a further call follows only a 429,
\* a status >= 500 or a thrown error; any other response is returned to the
\* caller with no call after it.
C5_RetryOnlyWhenTransient ==
    Returned =>
        /\ Len(Calls) <= maxRetries
        /\ \A k \in 1..Len(Calls) : Calls[k].v = net[k].status
        /\ \A k \in 1..(Len(Calls) - 1) : Retryable(Calls[k].v)
        /\ \A k \in 1..Len(Calls) :
              ~Retryable(Calls[k].v) =>
                  /\ k = Len(Calls)
                  /\ rpc = "returned"
                  /\ response = net[k]
        /\ (maxRetries >= 1 /\ ~Retryable(net[1].status)) => Len(Calls) = 1
        /\ rpc = "returned" => ~Retryable(response.status)

\* a response returned on the last permitted attempt, after a 429 and an error
C5_Witness ==
    /\ Returned
    /\ rpc = "returned"
    /\ maxRetries = 3
    /\ Len(Calls) = 3
    /\ \E j, k \in 1..2 : Calls[j].v = 429 /\ Calls[k].v = 0

\* C6 as stated: the delay slept before attempt k is initialDelay * 2^k.
C6_DelayBeforeAttempt ==
    Returned =>
        \A i \in 2..Len(events) :
            (events[i].e = "call" /\ events[i - 1].e = "sleep") =>
                events[i - 1].v = initialDelay * 2^AttemptOf(i)

\* C6 amended: the delay slept after failed attempt k, that is before
\* attempt k + 1, is initialDelay * 2^k, uncapped and exact, after a
\* 429/5xx status on any attempt and after a thrown error on any attempt
\* but the last; nothing else is slept.
C6_DelayAfterAttempt ==
    Returned =>
        /\ \A i \in 1..Len(events) :
              events[i].e = "call" =>
                  LET k == AttemptOf(i)
                      slept == /\ i < Len(events)
                               /\ events[i + 1] = SleepEvent(initialDelay * 2^k)
                  IN  /\ (events[i].v = 429 \/ events[i].v >= 500) => slept
                      /\ (events[i].v = 0 /\ k < maxRetries - 1) => slept
                      /\ (events[i].v = 0 /\ k = maxRetries - 1) => i = Len(events)
                      /\ ~Retryable(events[i].v) => i = Len(events)
        /\ \A i \in 1..Len(events) :
              events[i].e = "sleep" => (i > 1 /\ events[i - 1].e = "call")
        /\ \A i \in 2..Len(events) :
              events[i].e = "call" =>
                  events[i - 1] = SleepEvent(initialDelay * 2^(AttemptOf(i) - 1))

\* three attempts: an error, then two server errors, the last one still slept
C6_Witness ==
    /\ Returned
    /\ Len(events) = 6
    /\ events[1] = CallEvent(0)
    /\ events[3] = CallEvent(500)
    /\ events[6] = SleepEvent(initialDelay * 4)

---------------------------------------------------------------------------
(* Properties of detectStack (SpecStack)                                  *)

MatchedOf(d) == {i \in 1..Len(STACK_DETECTORS[d].patterns) : <<d, i>> \in corpus}

MaxWeightOf(d) ==
    CHOOSE w \in {STACK_DETECTORS[d].patterns[i].weight : i \in MatchedOf(d)} :
        \A i \in MatchedOf(d) : STACK_DETECTORS[d].patterns[i].weight <= w

SignalsNamed(name) == {k \in 1..Len(signals) : signals[k].name = name}

DoubleOf(signal) == 10 * signal.confidence + signal.rounding

DetectorNamed(name) ==
    CHOOSE d \in 1..Len(STACK_DETECTORS) : STACK_DETECTORS[d].name = name

\* C11: detectStack's list is sorted non-increasing by confidence, signals
\* of equal confidence stand in the order of the detector table, and a
\* detector with no matching fingerprint has no entry.
C11_SortedStableNoEmpty ==
    pc = "Extracted" =>
        /\ \A k, l \in 1..Len(signals) :
              k < l =>
                  /\ DoubleOf(signals[k]) >= DoubleOf(signals[l])
                  /\ DoubleOf(signals[k]) = DoubleOf(signals[l]) =>
                        DetectorNamed(signals[k].name) < DetectorNamed(signals[l].name)
        /\ \A d \in 1..Len(STACK_DETECTORS) :
              MatchedOf(d) = {} => SignalsNamed(STACK_DETECTORS[d].name) = {}
        /\ Len(signals) =
              Cardinality({d \in 1..Len(STACK_DETECTORS) : MatchedOf(d) # {}})

\* three signals: the first two tie, the last comes first in the detector table
C11_Witness ==
    /\ pc = "Extracted"
    /\ Len(signals) = 3
    /\ DoubleOf(signals[1]) = DoubleOf(signals[2])
    /\ DoubleOf(signals[2]) > DoubleOf(signals[3])
    /\ DetectorNamed(signals[3].name) < DetectorNamed(signals[1].name)

---------------------------------------------------------------------------
(* Properties of deduplicateByValue (SpecDedup)                           *)

\* the positions of the items whose key no earlier item has
FirstOccurrences == {i \in 1..Len(items) : \A j \in 1..(i - 1) : keyFn[items[j]] # keyFn[items[i]]}

\* the k-th smallest of them
NthFirst(k) ==
    CHOOSE i \in FirstOccurrences : Cardinality({j \in FirstOccurrences : j <= i}) = k

\* C13: the deduplicator keeps exactly the first occurrence of each key, in
\* the original order, and applied to its own output returns it unchanged.
C13_DedupFirstWinsIdempotent ==
    pc = "Dedup" =>
        /\ Len(unique) >= 1 =>
              /\ Len(unique[1]) = Cardinality(FirstOccurrences)
              /\ \A k \in 1..Len(unique[1]) : unique[1][k] = items[NthFirst(k)]
        /\ Len(unique) = 2 => unique[2] = unique[1]

\* four items, the third repeating the key of the first, deduplicated twice
C13_Witness ==
    /\ pc = "Dedup"
    /\ Len(unique) = 2
    /\ Len(items) = 4
    /\ keyFn[items[3]] = keyFn[items[1]]
    /\ keyFn[items[2]] # keyFn[items[1]]
    /\ items[3] # items[1]
    /\ Len(unique[2]) = 2

---------------------------------------------------------------------------
(* Properties of extractLinks (SpecLinks)                                 *)

\* the anchors of the document that resolve to a URL of the base's origin
InSiteAnchors ==
    {i \in 1..Len(linkDoc.anchors) :
        /\ linkDoc.anchors[i].kind \in {"abs", "rel"}
        /\ normalizeUrl(linkDoc.anchors[i], linkBase) # Null
        /\ Origin(normalizeUrl(linkDoc.anchors[i], linkBase)) = Origin(linkBase)}

\* what an in-site anchor points at, query string and fragment apart
PageOf(i) ==
    LET u == normalizeUrl(linkDoc.anchors[i], linkBase)
    IN  <<u.scheme, u.host, u.path>>

\* C14: every internal link has the base's origin and neither query string
\* nor fragment; anchors that differ only by query or fragment give one
\* entry; normalizing an internal link again returns it unchanged.
C14_InternalLinksNormalized ==
    pc = "Linked" =>
        /\ \A k \in 1..Len(docLinks.internalLinks) :
              LET link == docLinks.internalLinks[k]
              IN  /\ isSameOrigin(link, linkBase)
                  /\ link.search = "" /\ link.hash = ""
                  /\ normalizeUrl(link, Null) = link
                  /\ normalizeUrl(link, linkBase) = link
                  /\ \E i \in InSiteAnchors : PageOf(i) = <<link.scheme, link.host, link.path>>
        /\ Len(docLinks.internalLinks) = Cardinality({PageOf(i) : i \in InSiteAnchors})
        /\ extractLinks([anchors |-> docLinks.internalLinks, css |-> <<>>],
                        linkBase).internalLinks = docLinks.internalLinks

\* two anchors to the same page, one with a query string and a fragment
C14_Witness ==
    /\ pc = "Linked"
    /\ linkBase = Http("a.test", "/", "", "")
    /\ linkDoc.anchors = <<Http("a.test", "/p", "?q", "#f"), Http("a.test", "/p", "", "")>>
    /\ docLinks.internalLinks = <<Http("a.test", "/p", "", "")>>

---------------------------------------------------------------------------
(* Properties of checkRobotsTxt within the crawl (Spec)                   *)

\* C17: when robots.txt is absent (a non-2xx response) and when its fetch
\* raises an error, the verdict is "allowed" and the result carries a
\* warning.
C17_FailOpenWithWarning ==
    (Crawling /\ robotsTxt.kind \in {"throws", "not ok"}) =>
        /\ robotsTxtStatus = "allowed"
        /\ robotsCheck.warning # <<>>

---------------------------------------------------------------------------
(* Properties of the stylesheet pass (Spec)                               *)

\* the stylesheet URLs the recorded pages hold
Gathered == UNION {Range(pages[i].cssLinks) : i \in 1..Len(pages)}

\* the stylesheet requests made so far
CssRequests == totalRequests - Len(pages)

StylesheetPassInvariant ==
    Crawling =>
        /\ Range(allCssLinks) = Gathered
        /\ \A i, j \in 1..Len(allCssLinks) : i # j => allCssLinks[i] # allCssLinks[j]
        /\ {cssContents[i].key : i \in 1..Len(cssContents)} \subseteq Gathered
        /\ pc = "Draining" => (CssRequests = 0 /\ cssContents = <<>>)
        /\ pc = "AssetFetch" =>
              /\ config.includeAssets
              /\ ~LoopGuard
              /\ CssRequests = Len(allCssLinks) - Len(cssTodo)
              /\ cssTodo = SubSeq(allCssLinks, CssRequests + 1, Len(allCssLinks))
        /\ (pc = "Done" /\ config.includeAssets) => CssRequests = Len(allCssLinks)
        /\ ~config.includeAssets => (CssRequests = 0 /\ cssContents = <<>>)

OneStylesheetAtATime ==
    totalRequests' # totalRequests =>
        /\ totalRequests' = totalRequests + 1
        /\ pc = "AssetFetch" =>
              /\ cssTodo # <<>>
              /\ cssTodo' = Tail(cssTodo)
              /\ pages' = pages
              /\ allCssLinks' = allCssLinks

\* C20: the stylesheet pass starts only after the page loop has ended and
\* only when includeAssets is set; it requests every gathered stylesheet URL
\* exactly once, one at a time; the keys of the stylesheet map are always
\* gathered URLs; with includeAssets unset nothing is requested and the map
\* is empty.
C20_StylesheetPass ==
    /\ []StylesheetPassInvariant
    /\ [][OneStylesheetAtATime]_vars

\* a stylesheet linked from two pages and another one, one of the two fetched
C20_Witness ==
    /\ pc = "Done"
    /\ config.includeAssets
    /\ Len(allCssLinks) = 2
    /\ Len(cssContents) = 1
    /\ \E i, j \in 1..Len(pages) : i # j /\ pages[i].cssLinks = pages[j].cssLinks
                                        /\ pages[i].cssLinks # <<>>

---------------------------------------------------------------------------
(* Properties of extractColors (SpecColors)                               *)

UsageOrder == <<"background", "foreground", "primary", "secondary", "accent", "border">>

UsageKeywords(usage) ==
    CASE usage = "background" -> {"background", "bg"}
      [] usage = "foreground" -> {"foreground", "fg", "text"}
      [] OTHER -> {usage}

\* the categories a property name has a keyword of, as positions of UsageOrder
Categories(words) ==
    {k \in 1..Len(UsageOrder) : \E i \in 1..Len(words) : words[i] \in UsageKeywords(UsageOrder[k])}

PrimaryBgUnit ==
    [css |-> <<[name |-> <<"color", "primary", "bg">>, value |-> "#102030"]>>,
     sourceUrl |-> Http("a.test", "/s.css", "", "")]

\* C12: a token's usage is the earliest category, in the order background,
\* foreground, primary, secondary, accent, border, that its name has a
\* keyword of, unknown when it has none; the unit
\* `:root{--color-primary-bg:#102030;}` yields exactly one token, with value
\* #102030, format hex and usage background.
C12_UsageFirstMatchWins ==
    colorCalls >= 1 =>
        /\ \A t \in 1..Len(colorTokens) :
              LET words == Tail(colorTokens[t].name)
              IN  IF Categories(words) = {} THEN colorTokens[t].usage = "unknown"
                  ELSE \E k \in Categories(words) :
                          /\ \A l \in Categories(words) : k <= l
                          /\ colorTokens[t].usage = UsageOrder[k]
        /\ cssUnit = PrimaryBgUnit =>
              /\ Len(colorTokens) = 1
              /\ colorTokens[1].value = "#102030"
              /\ colorTokens[1].format = "hex"
              /\ colorTokens[1].usage = "background"

\* C18: the tokens extractColors returns for a unit depend only on the unit:
\* they are what the first call of a run returns for it, whatever was
\* processed before.
C18_ExtractorsStateless ==
    colorCalls >= 1 =>
        colorTokens = extractColors(cssUnit.css, cssUnit.sourceUrl, 0).tokens

---------------------------------------------------------------------------
(* Properties of detectAccessibilitySignals (SpecA11y)                    *)

\* the <img> tags that carry an alt attribute
TagsWithAlt ==
    {i \in 1..Len(imgTags) : \E a \in 1..Len(imgTags[i]) : imgTags[i][a] \in {"alt", "ALT"}}

---------------------------------------------------------------------------
(* Properties of detectComponentPatterns (SpecComponents)                 *)

\* the entry of the table for a component type
EntryOf(type) ==
    componentPatterns[CHOOSE i \in 1..Len(componentPatterns) : componentPatterns[i].type = type]

\* the stylesheets holding a rule of a component type
RulesOfType(type) ==
    {i \in 1..Len(sheets) : TypeMatches(EntryOf(type).patterns, sheets[i], <<>>) # <<>>}

\* a state flag is set only when a rule of the component has the pseudo-class
FlagFromOwnRules(component, flag, pseudo) ==
    flag => \E i \in RulesOfType(component.type) : IndexOf(sheets[i], pseudo, 1) # 0

OnePerMatchedType ==
    /\ \A i, j \in 1..Len(components) : components[i].type = components[j].type => i = j
    /\ \A i \in 1..Len(componentPatterns) :
          (\E j \in 1..Len(components) : components[j].type = componentPatterns[i].type)
              <=> RulesOfType(componentPatterns[i].type) # {}

AtMostFiveDistinct ==
    \A i \in 1..Len(components) :
        LET all == Range(TypeMatches(EntryOf(components[i].type).patterns, Join(sheets), <<>>))
            kept == components[i].classPatterns
        IN  /\ Len(kept) = Min(5, Cardinality(all))
            /\ Cardinality(Range(kept)) = Len(kept)
            /\ Range(kept) \subseteq all

FlagsFromOwnRules ==
    \A i \in 1..Len(components) :
        /\ FlagFromOwnRules(components[i], components[i].hasHoverState, ":hover")
        /\ FlagFromOwnRules(components[i], components[i].hasFocusState, ":focus")
        /\ FlagFromOwnRules(components[i], components[i].hasActiveState, ":active")

CardScenario ==
    sheets = <<".card{}", ".card{}", ".card-body{}", ".card:hover{}">> =>
        /\ Len(components) = 1
        /\ components[1].type = "card"
        /\ components[1].hasHoverState
        /\ ~components[1].hasFocusState

\* C16: detectComponentPatterns gives one pattern per component type that
\* has a match and none for a type without, keeps at most five distinct
\* class patterns, sets each of the hover, focus and active flags from the
\* rules of the component's own base class, and turns two .card{} rules, a
\* .card-body{} rule and a .card:hover{} rule into one card pattern with
\* hover set and focus not set.
C16_ComponentPatterns ==
    pc = "ComponentsDone" =>
        /\ OnePerMatchedType
        /\ AtMostFiveDistinct
        /\ FlagsFromOwnRules
        /\ CardScenario

\* the same without the flags
C16_Rest ==
    pc = "ComponentsDone" => OnePerMatchedType /\ AtMostFiveDistinct /\ CardScenario

\* the flags, when the first match of the type is a class selector
C16_FlagsOfClassRules ==
    pc = "ComponentsDone" =>
        \A i \in 1..Len(components) :
            BaseClassOf(components[i].sampleSnippet) # "" =>
                /\ FlagFromOwnRules(components[i], components[i].hasHoverState, ":hover")
                /\ FlagFromOwnRules(components[i], components[i].hasFocusState, ":focus")
                /\ FlagFromOwnRules(components[i], components[i].hasActiveState, ":active")

C16_SixDistinct ==
    \E i \in 1..Len(components) :
        Cardinality(Range(TypeMatches(EntryOf(components[i].type).patterns, Join(sheets), <<>>))) > 5

---------------------------------------------------------------------------
(* Properties of extract (SpecProvenance)                                 *)

\* the URLs of a session: its seed, its pages' final URLs, its stylesheet keys
SessionUrls ==
    {session.startUrl}
        \cup {session.pages[i].finalUrl : i \in 1..Len(session.pages)}
        \cup {session.cssContents[i].url : i \in 1..Len(session.cssContents)}

\* C19: every fact of the ExtractionResult carries at least one source URL,
\* and every source URL of a fact is the session's seed URL, the final URL
\* of one of its pages or a key of its stylesheet map.
C19_FactsHaveSessionSources ==
    pc = "ExtractionDone" =>
        \A i \in 1..Len(extraction) :
            /\ extraction[i].sourceUrls # {}
            /\ extraction[i].sourceUrls \subseteq SessionUrls

\* the same for every fact but the stack signals
C19_OtherFacts ==
    pc = "ExtractionDone" =>
        \A i \in 1..Len(extraction) :
            extraction[i].kind # "stackSignal" =>
                /\ extraction[i].sourceUrls # {}
                /\ extraction[i].sourceUrls \subseteq SessionUrls

\* the source URLs of a stack signal are of the session
C19_StackSourcesOfSession ==
    pc = "ExtractionDone" =>
        \A i \in 1..Len(extraction) : extraction[i].sourceUrls \subseteq SessionUrls

\* a stack signal has a source when one document matches one of its patterns
C19_SourcedWhenOneDocumentMatches ==
    pc = "ExtractionDone" =>
        \A i \in 1..Len(extraction) :
            (/\ extraction[i].kind = "stackSignal"
             /\ \E f \in Fingerprints, k \in 1..Len(ContentsOf(session)) :
                   /\ f[1] = DetectorOf(extraction[i].what)
                   /\ FingerprintTest(f, ContentsOf(session)[k]))
                => extraction[i].sourceUrls # {}

C19_AllKinds ==
    /\ pc = "ExtractionDone"
    /\ \A kind \in {"stackSignal", "customProperty", "componentPattern",
                    "accessibilitySignal", "layoutValue"} :
          \E i \in 1..Len(extraction) : extraction[i].kind = kind

---------------------------------------------------------------------------
(* Properties of a failed stylesheet fetch (Spec)                         *)

\* a pass of the stylesheet loop that stores nothing
StylesheetDropped ==
    pc = "AssetFetch" /\ totalRequests' # totalRequests /\ cssContents' = cssContents

StylesheetFailureOnlyDrops ==
    StylesheetDropped =>
        /\ pages' = pages
        /\ totalRequests' = totalRequests + 1
        /\ failedRequests' = failedRequests

\* C21: a stylesheet fetch that fails only leaves the stylesheet out of the
\* map: it adds no CrawledPage, it counts one more request and no more
\* failure, so failedRequests is always the number of CrawledPage entries
\* that carry an error.
C21_StylesheetFailureNotCounted ==
    /\ [](Crawling => failedRequests = Cardinality(FailedPages))
    /\ [][StylesheetFailureOnlyDrops]_vars

\* the same without the failure counter
C21_NoPageOneRequest ==
    [][StylesheetDropped => (pages' = pages /\ totalRequests' = totalRequests + 1)]_vars

\* failedRequests counts the pages with an error and the stylesheets left out
C21_FailuresArePagesAndDrops ==
    Crawling => failedRequests = Cardinality(FailedPages) + (CssRequests - Len(cssContents))

---------------------------------------------------------------------------
(* Properties of the pacing of the crawl (Spec)                           *)

\* the positions of the page and stylesheet fetches in the timeline
CrawlerFetches == {i \in 1..Len(timeline) : timeline[i].e \in {"page", "css"}}

DelayFollowsEveryFetch ==
    \A i \in CrawlerFetches :
        /\ i < Len(timeline)
        /\ timeline[i + 1].e = "sleep"
        /\ timeline[i + 1].ms = IF timeline[i].e = "page" THEN PageDelayMs ELSE CssDelayMs

FetchesSeparated ==
    \A i, j \in CrawlerFetches :
        i < j => \E k \in (i + 1)..(j - 1) : timeline[k].e = "sleep" /\ timeline[k].ms > 0

\* every fetch issued so far has been awaited: its result is in the session
NothingOutstanding ==
    /\ Cardinality({i \in CrawlerFetches : timeline[i].e = "page"}) = Len(pages)
    /\ Cardinality({i \in CrawlerFetches : timeline[i].e = "css"}) = CssRequests
    /\ \A i \in CrawlerFetches :
          timeline[i].e = "page" =>
              LET n == Cardinality({j \in CrawlerFetches : j <= i /\ timeline[j].e = "page"})
              IN  pages[n].url = timeline[i].url /\ (pages[n].error = "") = timeline[i].ok

OneFetchPerStep ==
    Cardinality(CrawlerFetches') <= Cardinality(CrawlerFetches) + 1

---------------------------------------------------------------------------
(* Properties of a stylesheet fetched with a 2xx response (Spec)          *)

\* the stylesheet fetches whose response had a 2xx status
OkStylesheets == {i \in CrawlerFetches : timeline[i].e = "css" /\ timeline[i].ok}

\* C29: every stylesheet whose fetch ended with a 2xx response is in the
\* stylesheet map under its URL and is not counted as a failed request, an
\* empty body included.
C29_OkStylesheetStored ==
    Crawling =>
        /\ \A i \in OkStylesheets :
              \E k \in 1..Len(cssContents) : cssContents[k].key = timeline[i].url
        /\ failedRequests
              = Cardinality(FailedPages)
                   + Cardinality({i \in CrawlerFetches : timeline[i].e = "css"} \ OkStylesheets)

\* a stylesheet in the map was fetched with a 2xx response, under its URL
C29_StoredWereOk ==
    Crawling =>
        \A k \in 1..Len(cssContents) :
            /\ cssContents[k].value # ""
            /\ \E i \in OkStylesheets : timeline[i].url = cssContents[k].key

---------------------------------------------------------------------------
(* Properties of fetchWithRetry when its attempts are used up (SpecRetry) *)

\* the answers that were errors thrown by fetch, before attempt k
ErrorsBefore(k) == {net[i].error : i \in {j \in 1..(k - 1) : net[j].status = 0}}

\* C24: when fetchWithRetry has used all its attempts, what it throws is the
\* error of its last attempt: the error that attempt threw, or, when that
\* attempt got a 429 or 5xx response, no error of an attempt before it.
C24_ThrowsLastError ==
    (rpc = "thrown" /\ maxRetries > 0) =>
        IF net[maxRetries].status = 0
        THEN response.error = net[maxRetries].error
        ELSE response.error \notin ErrorsBefore(maxRetries)

\* when the last attempt threw, its error is what is thrown
C24_LastThrownIsRaised ==
    (rpc = "thrown" /\ maxRetries > 0 /\ net[maxRetries].status = 0) =>
        response.error = net[maxRetries].error

\* when no attempt threw, the error names the failure to fetch
C24_NoErrorThrown ==
    (rpc = "thrown" /\ \A i \in 1..maxRetries : net[i].status # 0) =>
        response.error = "Failed to fetch after max attempts"

\* the sleeps among the events
Sleeps == {i \in 1..Len(events) : events[i].e = "sleep"}

\* C30: fetchWithRetry sleeps only between two attempts: no delay follows
\* its last attempt, whether it threw or got a 429 or 5xx response, so a
\* call with N attempts sleeps at most N - 1 times.
C30_NoSleepAfterLastAttempt ==
    rpc \in {"thrown", "returned"} =>
        /\ events # <<>> => events[Len(events)].e = "call"
        /\ maxRetries > 0 => Cardinality(Sleeps) <= maxRetries - 1

\* no delay after a last attempt that threw or that is returned
C30_NoSleepAfterThrowOrReturn ==
    (rpc \in {"thrown", "returned"} /\ events # <<>>) =>
        /\ (rpc = "returned" \/ net[maxRetries].status = 0) =>
              events[Len(events)].e = "call"
        /\ \A i \in Sleeps : i > 1 /\ events[i - 1].e = "call"
        /\ Cardinality(Sleeps) <= maxRetries


(***************************************************************************)
(* C25: the keys of radius and shadow tokens                               *)
(***************************************************************************)

\* the key an entry was set under: the literal for a direct declaration, the
\* variable name for a custom property
TokenKeyOf(token) ==
    IF token.name \in {"border-radius", "box-shadow"} THEN token.value ELSE token.name

\* the names of the custom properties of the units that hold the word
CustomNames(units, word) ==
    {"--" \o m.name : m \in {m \in UNION {Range(VarMatches(units[i].css, 1)) : i \in 1..Len(units)} :
                                 IndexOf(m.name, word, 1) > 0}}

DistinctKeys(tokens) ==
    \A i, j \in 1..Len(tokens) : TokenKeyOf(tokens[i]) = TokenKeyOf(tokens[j]) => i = j

NoVarNoNone(tokens) ==
    \A i \in 1..Len(tokens) :
        tokens[i].name \in {"border-radius", "box-shadow"}
            => ~StartsWithVar(tokens[i].value) /\ tokens[i].value # "none"

\* C25: in the token collections of the result, direct border-radius and
\* box-shadow entries are keyed by their literal (none for var(...) or a shadow
\* of none), every custom property whose name holds radius or shadow remains
\* under its name even when its value repeats, and no two entries have an
\* equal key.
C25_TokensKeyedByNameOrLiteral ==
    pc = "TokensDone" /\ styleUnits # <<>> =>
        /\ NoVarNoNone(radiusTokens) /\ NoVarNoNone(shadowTokens)
        /\ DistinctKeys(radiusTokens) /\ DistinctKeys(shadowTokens)
        /\ \A name \in CustomNames(styleUnits, "radius") :
               \E i \in 1..Len(radiusTokens) : radiusTokens[i].name = name
        /\ \A name \in CustomNames(styleUnits, "shadow") :
               \E i \in 1..Len(shadowTokens) : shadowTokens[i].name = name

\* C25, inside one call: the map of extractRadii and of extractShadows has the
\* keys the claim describes, and every custom property and every literal of
\* the unit has its entry.
C25_UnitMapsKeyed ==
    \A u \in 1..Len(styleUnits) :
        LET radii == extractRadii(styleUnits[u].css, styleUnits[u].sourceUrl)
            shadows == extractShadows(styleUnits[u].css, styleUnits[u].sourceUrl)
            one == <<styleUnits[u]>>
        IN  /\ NoVarNoNone(radii) /\ NoVarNoNone(shadows)
            /\ DistinctKeys(radii) /\ DistinctKeys(shadows)
            /\ \A name \in CustomNames(one, "radius") :
                   \E i \in 1..Len(radii) : radii[i].name = name
            /\ \A name \in CustomNames(one, "shadow") :
                   \E i \in 1..Len(shadows) : shadows[i].name = name
            /\ \A value \in Range(DeclMatches(styleUnits[u].css, 1, "border-radius")) :
                   ~StartsWithVar(Trim(value))
                       => \E i \in 1..Len(radii) : TokenKeyOf(radii[i]) = Trim(value)

\* C25, what the result holds instead: no two entries of a collection have an
\* equal value, whatever their names.
C25_ResultDistinctValues ==
    /\ \A i, j \in 1..Len(radiusTokens) :
           radiusTokens[i].value = radiusTokens[j].value => i = j
    /\ \A i, j \in 1..Len(shadowTokens) :
           shadowTokens[i].value = shadowTokens[j].value => i = j


(***************************************************************************)
(* C26: the colour tokens of one stylesheet unit                           *)
(***************************************************************************)

\* the tokens the custom properties of a unit call for: one per property whose
\* value holds a colour literal, unless an earlier property gave that literal
RECURSIVE ColoredProperties(_, _)
ColoredProperties(decls, produced) ==
    IF decls = <<>> THEN produced
    ELSE LET literals == ColorMatches(Head(decls).value)
         IN  ColoredProperties(Tail(decls),
                 IF literals # <<>> /\ \A i \in 1..Len(produced) : produced[i].value # literals[1].text
                 THEN Append(produced, [name |-> <<"--">> \o Head(decls).name,
                                        value |-> literals[1].text])
                 ELSE produced)

NamesAndValues(tokens) ==
    [i \in 1..Len(tokens) |-> [name |-> tokens[i].name, value |-> tokens[i].value]]

\* C26: a call of extractColors on a unit returns one token for every custom
\* property whose value holds a hex, rgb(a) or hsl(a) literal not already given
\* by an earlier property of the unit, valued with the first literal of the
\* property, and none for a property without a colour literal.
C26_TokenPerColoredProperty ==
    colorCalls > 0 => NamesAndValues(colorTokens) = ColoredProperties(cssUnit.css, <<>>)

\* C26, the part that holds: every token returned is one of those the unit
\* calls for or carries the first literal of one of its properties, no value is
\* produced twice and a property without a colour literal gives none.
C26_TokensAreFirstLiterals ==
    colorCalls > 0 =>
        /\ \A i \in 1..Len(colorTokens) :
               \E d \in 1..Len(cssUnit.css) :
                   /\ colorTokens[i].name = <<"--">> \o cssUnit.css[d].name
                   /\ ColorMatches(cssUnit.css[d].value) # <<>>
                   /\ colorTokens[i].value = ColorMatches(cssUnit.css[d].value)[1].text
        /\ \A i, j \in 1..Len(colorTokens) :
               colorTokens[i].value = colorTokens[j].value => i = j

\* C26, the first call of the process, on a unit of two coloured properties
\* where the second value is shorter than the match of the first: one token
C26_ShorterSecondValueSkipped ==
    /\ colorCalls = 1
    /\ Len(cssUnit.css) = 2
    /\ cssUnit.css[1].value = "#102030"
    /\ cssUnit.css[2].value = "#fff"
    => Len(colorTokens) = 1


(***************************************************************************)
(* C23: the verdict of the robots.txt scan                                 *)
(***************************************************************************)

\* line i is a Disallow of the whole site
RootDisallow(lines, i) ==
    lines[i].field = "Disallow:" /\ lines[i].value \in {"/", "/*"}

\* the agent named by the most recent User-agent line before line i, "" when
\* no User-agent line comes before it
AgentAbove(lines, i) ==
    LET above == {j \in 1..(i - 1) : lines[j].field = "User-agent:"}
    IN  IF above = {} THEN ""
        ELSE lines[CHOOSE j \in above : \A k \in above : k <= j].value

\* the agent is * or its name holds "bot", whatever the case of its letters
AgentConcerned(agent) == agent \in {"*", "GoogleBot"}

\* C23: the verdict is "blocked" exactly when a Disallow line with path / or
\* /* stands under a most recent User-agent line that names * or an agent
\* containing "bot"; another path, a Disallow before any User-agent line and a
\* Disallow under another agent leave it "allowed".
C23_BlockedIffRootDisallowUnderMatchingAgent ==
    pc = "RobotsDone" /\ robotsTxt.kind = "text" =>
        (~robotsCheck.allowed <=>
            \E i \in 1..Len(robotsTxt.lines) :
                /\ RootDisallow(robotsTxt.lines, i)
                /\ AgentConcerned(AgentAbove(robotsTxt.lines, i)))

\* a site blocked for GoogleBot after a block that did not match
C23_Witness ==
    /\ pc = "RobotsDone"
    /\ robotsTxt = RobotsText(<<UserAgent("curl"), UserAgent("GoogleBot"), Disallow("/*")>>)
    /\ ~robotsCheck.allowed

\* C23, the cases that stay allowed: a root Disallow as the first line, and
\* one whose most recent User-agent line names another agent
C23_OtherCasesAllowed ==
    pc = "RobotsDone" /\ robotsTxt.kind = "text" /\ robotsTxt.lines # <<>> =>
        /\ (RootDisallow(robotsTxt.lines, 1) /\ Len(robotsTxt.lines) = 1) => robotsCheck.allowed
        /\ (\A i \in 1..Len(robotsTxt.lines) :
               RootDisallow(robotsTxt.lines, i) => AgentAbove(robotsTxt.lines, i) = "curl")
               => robotsCheck.allowed


(***************************************************************************)
(* C27: the grid system of extractLayoutInfo                               *)
(***************************************************************************)

\* some stylesheet of the session holds the text
SheetHolds(text) ==
    \E i \in 1..Len(session.cssContents) : IndexOf(session.cssContents[i].css, text, 1) > 0

HasBootstrapColumns == SheetHolds(".col-md-6")
HasDisplayGrid == SheetHolds("display: grid")
HasDisplayFlex == SheetHolds("display:flex")

\* C27: the grid system is bootstrap-grid whenever .col-{bp}-N selectors
\* occur, else css-grid when display: grid occurs, else flexbox when
\* display: flex occurs, else unknown; the evidence has one entry per check
\* that was positive.
C27_GridPriority ==
    pc = "Analysed" =>
        /\ analysis.layout.gridSystem =
               IF HasBootstrapColumns THEN "bootstrap-grid"
               ELSE IF HasDisplayGrid THEN "css-grid"
               ELSE IF HasDisplayFlex THEN "flexbox"
               ELSE "unknown"
        /\ analysis.layout.gridEvidence =
               (IF HasDisplayGrid THEN <<"CSS Grid (display: grid)">> ELSE <<>>)
                   \o (IF HasDisplayFlex THEN <<"Flexbox (display: flex)">> ELSE <<>>)
                   \o (IF HasBootstrapColumns THEN <<"Bootstrap grid classes">> ELSE <<>>)

\* grid and flex both in the stylesheets, no bootstrap columns: css-grid with
\* two entries of evidence
C27_Witness ==
    /\ pc = "Analysed"
    /\ HasDisplayGrid /\ HasDisplayFlex /\ ~HasBootstrapColumns
    /\ analysis.layout.gridSystem = "css-grid"
    /\ Len(analysis.layout.gridEvidence) = 2


(***************************************************************************)
(* C28: a session without fetched stylesheets                              *)
(***************************************************************************)

\* the page of the session carries the style block
PageIsStyled == session.pages[1].fullHtml = StyledPage

\* C28: with an empty stylesheet map the detectors that read only the fetched
\* stylesheets find nothing, even when a page carries a <style> block with
\* component selectors, a grid, a container, a media query and focus styling:
\* no component pattern, grid system unknown without evidence, no container
\* width, no breakpoint, "Focus Visible Styling" absent; the tokens and custom
\* properties of the style block are still extracted.
C28_InlineStylesSeenByTokensOnly ==
    pc = "Analysed" /\ session.cssContents = <<>> =>
        /\ analysis.componentPatterns = <<>>
        /\ analysis.layout.gridSystem = "unknown"
        /\ analysis.layout.gridEvidence = <<>>
        /\ analysis.layout.containerWidths = <<>>
        /\ analysis.layout.breakpoints = <<>>
        /\ ~analysis.focusVisible.present
        /\ PageIsStyled =>
               /\ analysis.customProperties = <<"--radius-sm: 4px">>
               /\ \E i \in 1..Len(analysis.radii) :
                      /\ analysis.radii[i].name = "--radius-sm"
                      /\ analysis.radii[i].sourceUrl = session.pages[1].finalUrl

\* a styled page analysed without any stylesheet
C28_Witness ==
    /\ pc = "Analysed"
    /\ session.cssContents = <<>>
    /\ PageIsStyled
    /\ analysis.customProperties # <<>>
    /\ analysis.layout.gridSystem = "unknown"

\* C28, the crawl: without includeAssets no stylesheet is requested and the
\* stylesheet map of the session stays empty.
C28_NoAssetsNoStylesheets ==
    (Crawling /\ ~config.includeAssets) => cssContents = <<>> /\ CssRequests = 0

\* C28, the other way round: the same style block in a fetched stylesheet is
\* seen by the detectors
C28_StylesheetsAreRead ==
    pc = "Analysed" =>
        /\ SheetHolds(".btn") => analysis.componentPatterns # <<>>
        /\ SheetHolds(":focus-visible") => analysis.focusVisible.present
        /\ SheetHolds("@media") => analysis.layout.breakpoints = <<"640px">>
        /\ SheetHolds(".container") => analysis.layout.containerWidths # <<>>

=============================================================================
